---------------------------- MODULE Spec2Model ----------------------------
(***************************************************************************)
(* A model of bingo's `get` engine (src/get.go) and of its manifest store  *)
(* (src/pkg/bingo/mod.go).                                                 *)
(*                                                                         *)
(* Strings are sequences of tokens.  A token is one character ("/", "@",   *)
(* ",", ".", " ", "=", "-", a letter, a digit) or the indivisible word     *)
(* "none"; no other token holds the letters of that word, so a string has  *)
(* exactly one token sequence.                                             *)
(***************************************************************************)
EXTENDS Integers, Sequences, FiniteSets, TLC

VARIABLES
    rawTarget,   \* the raw target string handed to parseTarget
    parsed,      \* parseTarget's result, or Pending before the call
    files,       \* the pin directory: file name -> content
    mfs,         \* the ModFile objects of the running code, by the variable holding them
    io,          \* the Flush that has truncated its file and not yet written it
    rec,         \* the Package handed to SetDirectRequire
    log,         \* the operations done so far (the last ones, on a ModFile)
    pc,          \* where the get invocation stands
    cmd,         \* the getConfig of the invocation
    inv,         \* the locals of get and getAll
    gp,          \* the locals of the running getPackage and install
    getErr,      \* the error get returns, "" for none
    pre,         \* the pin directory when the invocation started
    commits,     \* the files of record os.Rename has replaced, in order
    bin,         \* GOBIN: name -> binary or symlink
    cache,       \* the Go module cache: module path -> its @v directory
    prev         \* the get invocations that returned before this one

vars == <<rawTarget, parsed, files, mfs, io, rec, log,
          pc, cmd, inv, gp, getErr, pre, commits, bin, cache, prev>>

parseVars == <<rawTarget, parsed>>
modVars == <<files, mfs, io, rec, log>>
getVars == <<pc, cmd, inv, gp, getErr, pre, commits, bin, cache, prev>>

----------------------------------------------------------------------------
(* Bounds of the model.                                                    *)

\* Longest raw target of the version-list inputs (tokens).
MaxVersionsLen == 6
\* Longest raw target of the locator inputs (tokens).
MaxLocatorLen == 8
\* Size of the records handed to SetDirectRequire on its own: the tokens of
\* the sub package, the build envs and the build flags, plus one per entry.
MaxMetaTokens == 5

----------------------------------------------------------------------------
(* strings, path and path/filepath of the Go standard library, as far as   *)
(* the sources use them.                                                   *)

Str(S, n) == UNION {[1..k -> S] : k \in 0..n}

Digits == {"0", "1", "2", "3", "4", "5", "6", "7", "8", "9"}

\* unicode lower-casing of one token; the model's upper-case letters are A, B.
LowerChar(c) == CASE c = "A" -> "a" [] c = "B" -> "b" [] OTHER -> c

ToLower(s) == [k \in 1..Len(s) |-> LowerChar(s[k])]

RECURSIVE SplitAcc(_, _, _, _)
SplitAcc(s, sep, cur, acc) ==
    IF s = <<>> THEN Append(acc, cur)
    ELSE IF Head(s) = sep THEN SplitAcc(Tail(s), sep, <<>>, Append(acc, cur))
    ELSE SplitAcc(Tail(s), sep, Append(cur, Head(s)), acc)

\* strings.Split(s, sep) for a one-token separator.
Split(s, sep) == SplitAcc(s, sep, <<>>, <<>>)

RECURSIVE Join(_, _)
\* strings.Join(elems, sep).
Join(elems, sep) ==
    IF elems = <<>> THEN <<>>
    ELSE IF Len(elems) = 1 THEN elems[1]
    ELSE elems[1] \o sep \o Join(Tail(elems), sep)

Contains(s, c) == \E k \in 1..Len(s) : s[k] = c

HasPrefix(s, p) == Len(s) >= Len(p) /\ SubSeq(s, 1, Len(p)) = p

HasSuffix(s, p) == Len(s) >= Len(p) /\ SubSeq(s, Len(s) - Len(p) + 1, Len(s)) = p

TrimPrefix(s, p) == IF HasPrefix(s, p) THEN SubSeq(s, Len(p) + 1, Len(s)) ELSE s

TrimSuffix(s, p) == IF HasSuffix(s, p) THEN SubSeq(s, 1, Len(s) - Len(p)) ELSE s

RECURSIVE StripTrailingSlashes(_)
StripTrailingSlashes(s) ==
    IF s # <<>> /\ s[Len(s)] = "/" THEN StripTrailingSlashes(SubSeq(s, 1, Len(s) - 1))
    ELSE s

\* path.Base(p): the last element, trailing slashes removed first; "." for
\* the empty path and "/" for a path of slashes only.
Base(p) ==
    IF p = <<>> THEN <<".">>
    ELSE LET q == StripTrailingSlashes(p)
             parts == Split(q, "/")
         IN IF q = <<>> THEN <<"/">> ELSE parts[Len(parts)]

----------------------------------------------------------------------------
(* get.go: parseTarget                                                     *)

\* goModVersionRegexp = "^v[0-9]*$"
goModVersionRegexp(s) ==
    /\ s # <<>>
    /\ s[1] = "v"
    /\ \A k \in 2..Len(s) : s[k] \in Digits

NoneVersion == <<"none">>

ParseError(e) == [err |-> e, name |-> <<>>, pkgPath |-> <<>>, versions |-> <<>>]

\* The value of `parsed` before parseTarget has run.
Pending == ParseError("pending")

RECURSIVE VersionsCheckDupOnly(_, _, _)
\* VersionsCheck without its test for `none`.
VersionsCheckDupOnly(versions, k, dup) ==
    IF k > Len(versions) THEN ""
    ELSE IF versions[k] \in dup THEN "duplicate"
    ELSE VersionsCheckDupOnly(versions, k + 1, dup \cup {versions[k]})

RECURSIVE VersionsCheck(_, _, _)
\* The loop of get.go:49-57 over versions[k..], dup being the versions seen.
VersionsCheck(versions, k, dup) ==
    IF k > Len(versions) THEN ""
    ELSE IF versions[k] \in dup THEN "duplicate"
    ELSE IF versions[k] = NoneVersion THEN "none"
    ELSE VersionsCheck(versions, k + 1, dup \cup {versions[k]})

\* NameOfPackage skipping a version-looking base whatever the path's length.
NameOfPackageAnyLength(pkgPath) ==
    LET name == Base(pkgPath)
        pkgSplit == Split(pkgPath, "/")
    IN IF Len(pkgSplit) > 1 /\ goModVersionRegexp(name)
       THEN pkgSplit[Len(pkgSplit) - 1]
       ELSE name

\* get.go:64-68: the default name of a binary referenced by path.
NameOfPackage(pkgPath) ==
    LET name == Base(pkgPath)
        pkgSplit == Split(pkgPath, "/")
    IN IF Len(pkgSplit) > 3 /\ goModVersionRegexp(name)
       THEN pkgSplit[Len(pkgSplit) - 1]
       ELSE name

parseTarget(raw) ==
    IF raw = <<>> THEN ParseError("empty")
    ELSE
      LET s == Split(raw, "@")
          nameOrPackage == s[1]
          versions == IF Len(s) > 1 THEN Split(s[2], ",") ELSE << <<>> >>
          verr == IF Len(versions) > 1 THEN VersionsCheck(versions, 1, {}) ELSE ""
          isPath == Contains(nameOrPackage, "/")
      IN IF verr # "" THEN ParseError(verr)
         ELSE [err |-> "",
               name |-> ToLower(IF isPath THEN NameOfPackage(nameOrPackage)
                                ELSE nameOrPackage),
               pkgPath |-> IF isPath THEN nameOrPackage ELSE <<>>,
               versions |-> versions]

----------------------------------------------------------------------------
(* pkg/bingo/mod.go: Package                                               *)

\* filepath.Clean on the segments of a path: "." and empty segments go, ".."
\* takes the segment before it with it.
RECURSIVE CleanSegs(_, _, _)
CleanSegs(segs, out, rooted) ==
    IF segs = <<>> THEN out
    ELSE LET h == Head(segs) IN
         IF h = <<>> \/ h = <<".">> THEN CleanSegs(Tail(segs), out, rooted)
         ELSE IF h = <<".", ".">>
         THEN IF out # <<>> /\ out[Len(out)] # <<".", ".">>
              THEN CleanSegs(Tail(segs), SubSeq(out, 1, Len(out) - 1), rooted)
              ELSE IF rooted THEN CleanSegs(Tail(segs), out, rooted)
              ELSE CleanSegs(Tail(segs), Append(out, h), rooted)
         ELSE CleanSegs(Tail(segs), Append(out, h), rooted)

Clean(p) ==
    LET rooted == p # <<>> /\ p[1] = "/"
        body == Join(CleanSegs(Split(p, "/"), <<>>, rooted), <<"/">>)
        res == IF rooted THEN <<"/">> \o body ELSE body
    IN IF res = <<>> THEN <<".">> ELSE res

\* filepath.Join(a, b): empty elements are ignored, the result is cleaned, and
\* it is empty when both are.
FilepathJoin(a, b) ==
    IF a = <<>> /\ b = <<>> THEN <<>>
    ELSE IF a = <<>> THEN Clean(b)
    ELSE IF b = <<>> THEN Clean(a)
    ELSE Clean(a \o <<"/">> \o b)

\* filepath.Dir(p) of a cleaned, slash-separated path.
Dir(p) ==
    LET segs == Split(p, "/") IN
    IF Len(segs) <= 1 THEN <<".">>
    ELSE Clean(Join(SubSeq(segs, 1, Len(segs) - 1), <<"/">>))

Package(modPath, version, relPath, envs, flags) ==
    [Module |-> [Path |-> modPath, Version |-> version],
     RelPath |-> relPath, BuildEnvs |-> envs, BuildFlags |-> flags]

\* Package.Path
Path(m) == FilepathJoin(m.Module.Path, m.RelPath)

\* Package.String
String(m) ==
    IF m.Module.Version = <<>> THEN Path(m)
    ELSE Path(m) \o <<"@">> \o m.Module.Version

----------------------------------------------------------------------------
(* The content of a module file as golang.org/x/mod/modfile parses and      *)
(* formats it: the module line with the words of its suffix comment, the   *)
(* require lines, the replace directives, and whether some comment block    *)
(* outside the require lines holds bingo:no_replace_fetch.                 *)

\* metaComment, the word of the module line's comment that marks a file as
\* generated; FakeComment is the comment ensureModDirExists writes on go.mod.
MetaComment == "meta"
FakeComment == "fake"

ModContent(header, requires, replaces, noReplace) ==
    [parse |-> TRUE, module |-> TRUE, header |-> header, requires |-> requires,
     replaces |-> replaces, noReplace |-> noReplace]

\* A file of zero bytes: it parses, to a file without a module line.
EmptyFile ==
    [parse |-> TRUE, module |-> FALSE, header |-> <<>>, requires |-> <<>>,
     replaces |-> <<>>, noReplace |-> FALSE]

\* A file modfile.Parse rejects.
Garbage ==
    [parse |-> FALSE, module |-> FALSE, header |-> <<>>, requires |-> <<>>,
     replaces |-> <<>>, noReplace |-> FALSE]

\* One require line; token is its suffix comment ("//" included), empty when
\* it has none.
Require(modPath, version, indirect, token) ==
    [path |-> modPath, version |-> version, indirect |-> indirect, token |-> token]

RECURSIVE TrimRightSpace(_)
TrimRightSpace(s) ==
    IF s # <<>> /\ s[Len(s)] = " " THEN TrimRightSpace(SubSeq(s, 1, Len(s) - 1)) ELSE s

\* modfile.Format followed by modfile.Parse: the printer trims a line's
\* trailing blanks, so a suffix comment comes back without them.
Format(m) ==
    [m EXCEPT !.requires =
        [k \in 1..Len(m.requires) |->
            [m.requires[k] EXCEPT !.token = TrimRightSpace(m.requires[k].token)]]]

----------------------------------------------------------------------------
(* pkg/bingo/mod.go: ModFile                                               *)

RECURSIVE parseMetaLoop(_, _, _, _)
parseMetaLoop(elem, i, relPath, buildEnv) ==
    IF i > Len(elem)
    THEN [relPath |-> relPath, buildEnv |-> buildEnv, buildFlags |-> <<>>]
    ELSE LET l == elem[i] IN
         IF l = <<>> THEN parseMetaLoop(elem, i + 1, relPath, buildEnv)
         ELSE IF l[1] = "-"
         THEN [relPath |-> relPath, buildEnv |-> buildEnv,
               buildFlags |-> SubSeq(elem, i, Len(elem))]
         ELSE IF ~Contains(l, "=") THEN parseMetaLoop(elem, i + 1, l, buildEnv)
         ELSE parseMetaLoop(elem, i + 1, relPath, Append(buildEnv, l))

parseDirectPackageMeta(line) == parseMetaLoop(Split(line, " "), 1, <<>>, <<>>)

\* A ModFile: its file name, the file its open handle designates (none once
\* that file was removed or replaced), the parsed syntax m, the direct
\* package (none or one) and the flag Reload reads from the comments.
ModFile(filename, m, direct, disabled) ==
    [filename |-> filename, at |-> <<filename>>, m |-> m,
     directPackage |-> direct, autoReplaceDisabled |-> disabled, err |-> ""]

NoModFile ==
    [filename |-> <<>>, at |-> <<>>, m |-> EmptyFile, directPackage |-> <<>>,
     autoReplaceDisabled |-> FALSE, err |-> "closed"]

\* MetaOf with the build flags before the build envs.
MetaOfFlagsFirst(target) ==
    (IF target.RelPath # <<>> /\ target.RelPath # <<".">>
     THEN <<target.RelPath>> ELSE <<>>)
    \o target.BuildFlags \o target.BuildEnvs

\* The meta of a direct require: sub package, build envs, build flags.
MetaOf(target) ==
    (IF target.RelPath # <<>> /\ target.RelPath # <<".">>
     THEN <<target.RelPath>> ELSE <<>>)
    \o target.BuildEnvs \o target.BuildFlags

\* ModFile.SetDirectRequire: every require is dropped and the target's added,
\* with the meta as its suffix comment when there is any.
SetDirectRequire(mf, target) ==
    LET meta == MetaOf(target)
        token == IF Len(meta) > 0 THEN <<"/", "/", " ">> \o Join(meta, <<" ">>)
                 ELSE <<>>
    IN [mf EXCEPT
          !.m.requires = <<Require(target.Module.Path, target.Module.Version,
                                   FALSE, token)>>,
          !.directPackage = <<target>>]

\* The first require of reqs, indirect or not, as a sequence of 0 or 1.
HeadRequire(reqs) == IF reqs = <<>> THEN <<>> ELSE <<Head(reqs)>>

\* The first require of reqs that is not indirect, as a sequence of 0 or 1.
RECURSIVE FirstDirect(_)
FirstDirect(reqs) ==
    IF reqs = <<>> THEN <<>>
    ELSE IF ~Head(reqs).indirect THEN <<Head(reqs)>>
    ELSE FirstDirect(Tail(reqs))

\* ModFile.Reload, reading `bytes` through the handle.  Slicing a suffix
\* comment shorter than "// " ends the process (err "panic").
Reload(mf, bytes) ==
    IF ~bytes.parse THEN [mf EXCEPT !.err = "parse"]
    ELSE
      LET first == FirstDirect(bytes.requires)
          loaded == [mf EXCEPT !.m = [bytes EXCEPT !.requires = <<>>],
                               !.autoReplaceDisabled = bytes.noReplace,
                               !.directPackage = <<>>,
                               !.err = ""]
      IN IF first = <<>> THEN loaded
         ELSE LET r == first[1] IN
              IF r.token = <<>>
              THEN SetDirectRequire(loaded,
                      Package(r.path, r.version, <<>>, <<>>, <<>>))
              ELSE IF Len(r.token) < 3 THEN [loaded EXCEPT !.err = "panic"]
              ELSE LET meta == parseDirectPackageMeta(
                                  SubSeq(r.token, 4, Len(r.token)))
                   IN SetDirectRequire(loaded,
                         Package(r.path, r.version, meta.relPath,
                                 meta.buildEnv, meta.buildFlags))

\* errOnMetaMissing on the module line's comment.
errOnMetaMissing(header) == header # <<MetaComment>>

\* OpenModFile failing on a missing meta comment instead of adding it.
OpenModFileStrict(filename, bytes) ==
    LET mf == Reload(ModFile(filename, EmptyFile, <<>>, FALSE), bytes) IN
    IF mf.err # "" THEN mf
    ELSE IF ~mf.m.module THEN [mf EXCEPT !.err = "no module"]
    ELSE IF errOnMetaMissing(mf.m.header) THEN [mf EXCEPT !.err = "meta missing"]
    ELSE mf

\* An onModHeaderComments that adds the meta comment whether it is there or
\* not.
MarkedAgain(mf) ==
    IF mf.err # "" THEN mf
    ELSE IF ~mf.m.module THEN [mf EXCEPT !.err = "no module"]
    ELSE [mf EXCEPT !.m.header = Append(mf.m.header, MetaComment)]

\* OpenModFile after its Reload: onModHeaderComments with OpenModFile's
\* callback, which fails for a file without module line and adds the meta
\* comment when it is missing.
onModHeaderComments(mf) ==
    IF mf.err # "" THEN mf
    ELSE IF ~mf.m.module THEN [mf EXCEPT !.err = "no module"]
    ELSE IF errOnMetaMissing(mf.m.header)
    THEN [mf EXCEPT !.m.header = Append(mf.m.header, MetaComment)]
    ELSE mf

\* OpenModFile on a file holding `bytes`: Reload, then the header check.
OpenModFile(filename, bytes) ==
    onModHeaderComments(Reload(ModFile(filename, EmptyFile, <<>>, FALSE), bytes))

\* ModFile.DirectPackage
DirectPackage(mf) == mf.directPackage

\* ModFile.SetReplace
SetReplace(mf, target) == [mf EXCEPT !.m.replaces = target]

\* ModFile.Flush splits at its two writes: the file is truncated, then the
\* formatted syntax is written and read back (FlushWritten).
FlushWritten(mf) == Reload(mf, Format(mf.m))

----------------------------------------------------------------------------
(* Files and open handles.  A handle designates the file it was opened on  *)
(* until that file is removed or renamed over; it follows a rename.        *)

Exists(fs, name) == name \in DOMAIN fs

WriteFile(fs, name, bytes) ==
    [n \in DOMAIN fs \cup {name} |-> IF n = name THEN bytes ELSE fs[n]]

RemoveFiles(fs, names) == [n \in DOMAIN fs \ names |-> fs[n]]

\* The bytes an open handle reads.
ReadHandle(fs, mf) == IF mf.at = <<>> THEN EmptyFile ELSE fs[mf.at[1]]

\* File.Truncate(0) and File.Write through an open handle.
TruncateHandle(fs, mf) ==
    IF mf.at = <<>> THEN fs ELSE WriteFile(fs, mf.at[1], EmptyFile)

WriteHandle(fs, mf, bytes) ==
    IF mf.at = <<>> THEN fs ELSE WriteFile(fs, mf.at[1], bytes)

\* The handles after the files `names` were unlinked.
DetachHandles(hs, names) ==
    [h \in DOMAIN hs |->
        IF hs[h].at # <<>> /\ hs[h].at[1] \in names
        THEN [hs[h] EXCEPT !.at = <<>>] ELSE hs[h]]

NoIO == <<>>

\* The second half of ModFile.Flush (mod.go:283-286), and of Close when the
\* flush is Close's: the formatted syntax is written and reloaded.
FlushWrite ==
    /\ io # NoIO
    /\ LET h == io[1].h
           mf == mfs[h]
           bytes == Format(mf.m)
           done == FlushWritten(mf)
       IN /\ files' = WriteHandle(files, mf, bytes)
          /\ mfs' = [mfs EXCEPT ![h] =
                        IF io[1].close THEN [NoModFile EXCEPT !.err = done.err]
                        ELSE done]
    /\ io' = NoIO
    /\ log' = IF io[1].close THEN log ELSE Append(log, "Flush")
    /\ UNCHANGED <<rec, parseVars, getVars>>

----------------------------------------------------------------------------
(* File names of the pin directory and filepath.Glob on them.              *)

DotMod == <<".", "m", "o", "d">>

\* FakeRootModFileName
FakeRootModFileName == <<"g", "o">> \o DotMod

DigitChars == <<"0", "1", "2", "3", "4", "5", "6", "7", "8", "9">>

RECURSIVE Itoa(_)
\* fmt's %d of an index.
Itoa(i) ==
    IF i < 10 THEN <<DigitChars[i + 1]>>
    ELSE Itoa(i \div 10) \o <<DigitChars[(i % 10) + 1]>>

\* strconv.ParseInt(s, 10, 64): an optional sign and at least one digit.
ParseInt(s) ==
    LET signed == s # <<>> /\ s[1] \in {"+", "-"}
        body == IF signed THEN Tail(s) ELSE s
        ok == body # <<>> /\ \A k \in 1..Len(body) : body[k] \in Digits
        DigitValue(c) == CHOOSE d \in 0..9 : DigitChars[d + 1] = c
        RECURSIVE DigitsValue(_, _)
        DigitsValue(t, acc) ==
            IF t = <<>> THEN acc
            ELSE DigitsValue(Tail(t), 10 * acc + DigitValue(Head(t)))
        n == IF ok THEN DigitsValue(body, 0) ELSE 0
    IN [ok |-> ok, val |-> IF signed /\ s[1] = "-" THEN 0 - n ELSE n]

\* The names getPackage computes for index i of tool `name` (get.go:535-543).
IndexedName(name, i) == IF i > 0 THEN name \o <<".">> \o Itoa(i) ELSE name
OutModFile(name, i) == IndexedName(name, i) \o DotMod
TmpModFile(name, i) == IndexedName(name, i) \o <<".", "t", "m", "p">> \o DotMod
TmpEmptyModFile(name, i) ==
    IndexedName(name, i) \o <<"-", "e", ".", "t", "m", "p">> \o DotMod

RECURSIVE Less(_, _)
\* a < b as Go compares strings: by the byte order of the tokens.
Less(a, b) ==
    IF b = <<>> THEN FALSE
    ELSE IF a = <<>> THEN TRUE
    ELSE IF Head(a) = Head(b) THEN Less(Tail(a), Tail(b))
    ELSE LET Ascii ==
               <<" ", "+", ",", "-", ".", "/", "0", "1", "2", "3", "4", "5", "6",
                 "7", "8", "9", "=", "@", "A", "B", "E", "F", "_", "a", "b", "c",
                 "d", "e", "f", "g", "h", "i", "j", "k", "l", "m", "n", "none",
                 "o", "p", "q", "r", "s", "t", "u", "v", "w", "x", "y", "z">>
             Rank(c) == CHOOSE k \in 1..Len(Ascii) : Ascii[k] = c
         IN Rank(Head(a)) < Rank(Head(b))

RECURSIVE Sorted(_)
\* The names of a set in the order filepath.Glob returns them.
Sorted(names) ==
    IF names = {} THEN <<>>
    ELSE LET least == CHOOSE n \in names : \A o \in names \ {n} : Less(n, o)
         IN <<least>> \o Sorted(names \ {least})

\* The patterns the sources glob with.
MatchArrMod(f, name) ==           \* <name>.*.mod
    /\ HasPrefix(f, name \o <<".">>)
    /\ HasSuffix(f, DotMod)
    /\ Len(f) >= Len(name) + 1 + Len(DotMod)
MatchTmp(f) ==                    \* *.tmp.*
    \E k \in 1..(Len(f) - 4) : SubSeq(f, k, k + 4) = <<".", "t", "m", "p", ".">>

Glob(fs, M(_)) == Sorted({f \in DOMAIN fs : M(f)})

\* An existingModFiles that finds none.
NoExistingModFiles(fs, targetName) == <<>>

\* existingModFiles
existingModFiles(fs, targetName) ==
    (IF Exists(fs, targetName \o DotMod) THEN <<targetName \o DotMod>> ELSE <<>>)
    \o LET Arr(f) == MatchArrMod(f, targetName) IN Glob(fs, Arr)

\* A cleanGoGetTmpFiles that removes nothing.
NoTmpFilesOf(fs) == {}

\* cleanGoGetTmpFiles: the names it removes (the model holds no .sum files).
TmpFilesOf(fs) == {f \in DOMAIN fs : MatchTmp(f)}

\* removeAllGlob(<modDir>/<name>.*): the names it removes.
NameDotStarOf(fs, name) == {f \in DOMAIN fs : HasPrefix(f, name \o <<".">>)}

\* The array mod files of a numeric index that is not below nversions.
UnusedNumberedFiles(fs, targetName, nversions) ==
    {f \in DOMAIN fs :
        /\ MatchArrMod(f, targetName)
        /\ LET i == ParseInt(Split(f, ".")[2])
           IN i.ok /\ i.val >= nversions}

\* get.go:303-316: the array mod files to remove once nversions targets are
\* installed: those whose index does not parse or is not below nversions.
UnusedArrFiles(fs, targetName, nversions) ==
    {f \in DOMAIN fs :
        /\ MatchArrMod(f, targetName)
        /\ LET i == ParseInt(Split(f, ".")[2])
           IN ~i.ok \/ i.val >= nversions}

\* validateNewName
validateNewName(versions, old, new) ==
    IF new = old THEN "same name"
    ELSE IF versions[1] = NoneVersion THEN "none"
    ELSE ""

\* validateTargetName
validateTargetName(targetName) ==
    IF targetName = <<"c", "m", "d">> THEN "ambiguous name"
    ELSE IF targetName = TrimSuffix(FakeRootModFileName, DotMod) THEN "impossible name"
    ELSE ""

\* NameFromModFile
NameFromModFile(modFile) == Split(TrimSuffix(modFile, DotMod), ".")[1]

----------------------------------------------------------------------------
(* get.go: the Go module cache and resolveInGoModCache.  The cache maps a  *)
(* module path that has a directory cache/download/<path>/@v to that       *)
(* directory: whether it holds the file `list`, the lines of `list`, and   *)
(* the versions v for which it holds v.info.                               *)

DotInfo == <<".", "i", "n", "f", "o">>

\* The revision prefix an .info file is matched with (get.go:504).
ShaPrefixLen == 12

Resolved(err, target) == [err |-> err, target |-> target]

\* A latestModVersion that takes the first line of the list file.
firstModVersion(dir) ==
    IF ~dir.hasList THEN [err |-> "open", version |-> <<>>]
    ELSE IF dir.list = <<>> \/ dir.list[1] = <<>>
    THEN [err |-> "empty file", version |-> <<>>]
    ELSE [err |-> "", version |-> dir.list[1]]

\* latestModVersion: the last line of the list file.
latestModVersion(dir) ==
    IF ~dir.hasList THEN [err |-> "open", version |-> <<>>]
    ELSE LET last == IF dir.list = <<>> THEN <<>> ELSE dir.list[Len(dir.list)]
         IN IF last = <<>> THEN [err |-> "empty file", version |-> <<>>]
            ELSE [err |-> "", version |-> last]

\* An InModule that forgets the version.
InModuleUnversioned(target, modulePath, v) ==
    [target EXCEPT
        !.Module = [Path |-> modulePath, Version |-> <<>>],
        !.RelPath = TrimPrefix(TrimPrefix(target.RelPath, modulePath), <<"/">>)]

\* The target once `modulePath` is taken as its module, with version v.
InModule(target, modulePath, v) ==
    [target EXCEPT
        !.Module = [Path |-> modulePath, Version |-> v],
        !.RelPath = TrimPrefix(TrimPrefix(target.RelPath, modulePath), <<"/">>)]

\* The .info files of a cache directory that end with the first ShaPrefixLen
\* tokens of `version`, in directory order.
ShaMatches(dir, version) ==
    IF Len(version) > ShaPrefixLen
    THEN Sorted({v \o DotInfo : v \in {x \in dir.infos :
                    HasSuffix(x \o DotInfo, SubSeq(version, 1, ShaPrefixLen) \o DotInfo)}})
    ELSE <<>>

RECURSIVE resolveInGoModCacheFrom(_, _, _, _, _)
\* The loop of resolveInGoModCache (get.go:447-516) from candidate modulePath.
resolveInGoModCacheFrom(cch, verbose, update, target, modulePath) ==
    IF Len(Split(modulePath, "/")) <= 2
    THEN Resolved("no module was cached", target)
    ELSE IF modulePath \notin DOMAIN cch
    THEN resolveInGoModCacheFrom(cch, verbose, update, target, Dir(modulePath))
    ELSE
      LET dir == cch[modulePath]
          version == target.Module.Version
      IN IF update \/ version = <<>>
         THEN LET latest == latestModVersion(dir) IN
              IF latest.err # "" THEN Resolved("get latest version", target)
              ELSE Resolved("", InModule(target, modulePath, latest.version))
         ELSE IF HasPrefix(version, <<"v">>)
         THEN IF version \in dir.infos
              THEN Resolved("", InModule(target, modulePath, version))
              ELSE resolveInGoModCacheFrom(cch, verbose, update, target, Dir(modulePath))
         ELSE LET found == ShaMatches(dir, version) IN
              IF found # <<>>
              THEN Resolved("", InModule(target, modulePath, TrimSuffix(found[1], DotInfo)))
              ELSE IF verbose /\ Len(version) < ShaPrefixLen
              THEN Resolved("panic", target)
              ELSE resolveInGoModCacheFrom(cch, verbose, update, target, Dir(modulePath))

\* A resolveInGoModCache that looks at the full package path only.
resolveAtLocatorOnly(cch, verbose, update, target) ==
    IF Path(target) \in DOMAIN cch
    THEN resolveInGoModCacheFrom(cch, verbose, update, target, Path(target))
    ELSE Resolved("no module was cached", target)

resolveInGoModCache(cch, verbose, update, target) ==
    resolveInGoModCacheFrom(cch, verbose, update, target, Path(target))

----------------------------------------------------------------------------
(* get.go: resolvePackage                                                  *)

\* ModIndirectModules: the modules of the indirect requires of a parsed file.
ModIndirectModules(bytes) ==
    LET Ind(k) == bytes.requires[k].indirect
        RECURSIVE Pick(_)
        Pick(k) == IF k > Len(bytes.requires) THEN <<>>
                   ELSE (IF Ind(k) THEN <<[Path |-> bytes.requires[k].path,
                                           Version |-> bytes.requires[k].version]>>
                         ELSE <<>>) \o Pick(k + 1)
    IN Pick(1)

\* The first module of mods whose path is `path`, as a sequence of 0 or 1.
RECURSIVE FirstWithPath(_, _)
FirstWithPath(mods, path) ==
    IF mods = <<>> THEN <<>>
    ELSE IF Head(mods).Path = path THEN <<Head(mods)>>
    ELSE FirstWithPath(Tail(mods), path)

\* A resolvePackage that gives up where the code falls back to the cache.
FallbackFails(cch, verbose, update, target) == Resolved("fallback failed", target)

\* The fallback of resolvePackage (get.go:405-408): resolveInGoModCache, its
\* error wrapped.
Fallback(cch, verbose, update, target) ==
    LET found == resolveInGoModCache(cch, verbose, update, target) IN
    IF found.err = "" \/ found.err = "panic" THEN found
    ELSE Resolved("fallback failed", target)

\* resolvePackage, `go get -d` having succeeded (getOK) or not and left
\* `bytes` in the empty tmp mod file.
resolvePackage(getOK, bytes, cch, verbose, update, target) ==
    LET mods == ModIndirectModules(bytes)
        cached == Fallback(cch, verbose, update, target)
    IN IF ~getOK THEN cached
       ELSE IF ~bytes.parse THEN Resolved("parse", target)
       ELSE IF Len(mods) = 0 THEN Resolved("no indirect module", target)
       ELSE IF Len(mods) = 1
       THEN Resolved("", InModule(target, mods[1].Path, mods[1].Version))
       ELSE IF target.Module.Path # <<>>
       THEN LET m == FirstWithPath(mods, target.Module.Path) IN
            IF m # <<>> THEN Resolved("", InModule(target, m[1].Path, m[1].Version))
            ELSE Resolved("no indirect module for module", target)
       ELSE LET m == FirstWithPath(mods, Path(target)) IN
            IF m # <<>> THEN Resolved("", InModule(target, m[1].Path, m[1].Version))
            ELSE cached

\* getPackage's test (get.go:547) for running the resolution.
NeedsResolve(target, update) ==
    \/ target.Module.Version = <<>>
    \/ ~HasPrefix(target.Module.Version, <<"v">>)
    \/ target.Module.Path = <<>>
    \/ update

----------------------------------------------------------------------------
(* The locals of a get invocation.                                         *)

\* get and getAll: which branch runs (mode), the name the targets are
\* installed under, the name -r renames from, the getPackage calls to make
\* (work) and the one running (k), len(versions), the ModFiles whose Close is
\* deferred (last deferred first), and ListPinnedMainPackages' files to read
\* and packages found.
NoInv ==
    [mode |-> "", targetName |-> <<>>, oldName |-> <<>>, work |-> <<>>, k |-> 0,
     nversions |-> 0, defers |-> <<>>, listing |-> <<>>, pkgs |-> <<>>]

\* getPackage and install: name and index i, the target, the replace
\* statements fetched, the deferred Closes, go list's output and the error
\* getPackage returns.
NoGp ==
    [name |-> <<>>, i |-> 0, target |-> Package(<<>>, <<>>, <<>>, <<>>, <<>>),
     replaceStmts |-> <<>>, defers |-> <<>>, kind |-> <<>>, err |-> ""]

NoCmd ==
    [raw |-> <<>>, update |-> FALSE, name |-> <<>>, rename |-> <<>>,
     link |-> FALSE, verbose |-> FALSE]

GetIdle ==
    /\ pc = "off"
    /\ cmd = NoCmd
    /\ inv = NoInv
    /\ gp = NoGp
    /\ getErr = ""
    /\ pre = <<>>
    /\ commits = <<>>
    /\ bin = <<>>
    /\ cache = <<>>
    /\ prev = <<>>

----------------------------------------------------------------------------
(* A ModFile on its own: one file, one ModFile object, its operations in   *)
(* any order.                                                              *)

TheFile == <<"t", ".", "m", "o", "d">>

TheModule == <<"h", "/", "o", "/", "m">>
V1 == <<"v", "1">>
V2 == <<"v", "2">>

IsOpen(h) == mfs[h].err = "" /\ mfs[h].filename # <<>>

\* The last two operations, the one of name `op` being the newest.
Logged(op) == IF log = <<>> THEN <<op>> ELSE <<log[Len(log)], op>>

ModOpen ==
    /\ io = NoIO
    /\ mfs["mf"].err = "closed"
    /\ Exists(files, TheFile)
    /\ LET mf == OpenModFile(TheFile, files[TheFile]) IN
       mfs' = [mfs EXCEPT !["mf"] = IF mf.err = "" THEN mf ELSE mfs["mf"]]
    /\ log' = <<"Open">>
    /\ UNCHANGED <<files, io, rec, parseVars, getVars>>

ModSetDirectRequire ==
    /\ io = NoIO
    /\ IsOpen("mf")
    /\ mfs' = [mfs EXCEPT !["mf"] = SetDirectRequire(mfs["mf"], rec)]
    /\ log' = Logged("SetDirectRequire")
    /\ UNCHANGED <<files, io, rec, parseVars, getVars>>

ModSetReplace ==
    /\ io = NoIO
    /\ IsOpen("mf")
    /\ \E r \in {<<>>, <<"r1">>} :
          mfs' = [mfs EXCEPT !["mf"] = SetReplace(mfs["mf"], r)]
    /\ log' = Logged("SetReplace")
    /\ UNCHANGED <<files, io, rec, parseVars, getVars>>

\* The first half of ModFile.Flush (mod.go:276-282).
ModFlush ==
    /\ io = NoIO
    /\ IsOpen("mf")
    /\ files' = TruncateHandle(files, mfs["mf"])
    /\ io' = <<[h |-> "mf", close |-> FALSE]>>
    /\ log' = IF log = <<>> THEN log ELSE <<log[Len(log)]>>
    /\ UNCHANGED <<mfs, rec, parseVars, getVars>>

ModReload ==
    /\ io = NoIO
    /\ IsOpen("mf")
    /\ mfs' = [mfs EXCEPT !["mf"] = Reload(mfs["mf"], ReadHandle(files, mfs["mf"]))]
    /\ log' = Logged("Reload")
    /\ UNCHANGED <<files, io, rec, parseVars, getVars>>

\* ModFile.Close: Flush, then the handle is released.
ModClose ==
    /\ io = NoIO
    /\ IsOpen("mf")
    /\ files' = TruncateHandle(files, mfs["mf"])
    /\ io' = <<[h |-> "mf", close |-> TRUE]>>
    /\ log' = <<"Close">>
    /\ UNCHANGED <<mfs, rec, parseVars, getVars>>

\* The records of at most MaxMetaTokens tokens, each written as one word:
\* the sub package, then "E" before each build env and "F" before each flag.
MetaAlphabet == {"c", ".", " ", "=", "-"}

RECURSIVE RecordOfWordFrom(_, _, _, _, _)
RecordOfWordFrom(w, mode, relPath, envs, flags) ==
    IF w = <<>> THEN Package(TheModule, V1, relPath, envs, flags)
    ELSE LET c == Head(w) IN
         IF c = "E" THEN RecordOfWordFrom(Tail(w), "E", relPath, Append(envs, <<>>), flags)
         ELSE IF c = "F" THEN RecordOfWordFrom(Tail(w), "F", relPath, envs, Append(flags, <<>>))
         ELSE IF mode = "R" THEN RecordOfWordFrom(Tail(w), mode, Append(relPath, c), envs, flags)
         ELSE IF mode = "E"
         THEN RecordOfWordFrom(Tail(w), mode, relPath,
                 [envs EXCEPT ![Len(envs)] = Append(@, c)], flags)
         ELSE RecordOfWordFrom(Tail(w), mode, relPath, envs,
                 [flags EXCEPT ![Len(flags)] = Append(@, c)])

RecordOfWord(w) == RecordOfWordFrom(w, "R", <<>>, <<>>, <<>>)

EnvsBeforeFlags(w) ==
    \A i, j \in 1..Len(w) : (w[i] = "F" /\ w[j] = "E") => j < i

MetaRecords ==
    {RecordOfWord(w) : w \in {x \in Str(MetaAlphabet \cup {"E", "F"}, MaxMetaTokens) :
                                 EnvsBeforeFlags(x)}}

\* A module file as `go mod init` leaves it: a module line without comment.
FreshModFile == ModContent(<<>>, <<>>, <<>>, FALSE)

ParseIdle ==
    /\ rawTarget = <<>>
    /\ parsed = Pending

ModIdle ==
    /\ files = <<>>
    /\ mfs = <<>>
    /\ io = NoIO
    /\ rec = Package(<<>>, <<>>, <<>>, <<>>, <<>>)
    /\ log = <<>>

InitRoundTrip ==
    /\ ParseIdle
    /\ GetIdle
    /\ files = [n \in {TheFile} |-> FreshModFile]
    /\ mfs = [h \in {"mf"} |-> NoModFile]
    /\ io = NoIO
    /\ rec \in MetaRecords
    /\ log = <<>>

NextRoundTrip == ModOpen \/ ModSetDirectRequire \/ ModFlush \/ FlushWrite

SpecRoundTrip == InitRoundTrip /\ [][NextRoundTrip]_vars

\* Contents a manifest of record may have: generated ones, hand-edited ones
\* (no marker, further requires), a truncated and an unparsable one.
SubC == <<"/", "/", " ", "c">>

ManifestContents ==
    { ModContent(h, r, <<>>, n) :
        h \in {<<>>, <<MetaComment>>},
        r \in { <<>>,
                <<Require(TheModule, V1, FALSE, SubC)>>,
                <<Require(TheModule, V1, FALSE, <<>>)>>,
                <<Require(TheModule, V2, TRUE, <<>>),
                  Require(TheModule, V1, FALSE, SubC)>>,
                <<Require(TheModule, V1, FALSE, SubC),
                  Require(TheModule, V2, FALSE, <<>>)>> },
        n \in BOOLEAN }
    \cup {EmptyFile, Garbage}

InitModFile ==
    /\ ParseIdle
    /\ GetIdle
    /\ files \in {[n \in {TheFile} |-> c] : c \in ManifestContents}
    /\ mfs = [h \in {"mf"} |-> NoModFile]
    /\ io = NoIO
    /\ rec \in {Package(TheModule, V2, <<>>, <<>>, <<>>),
                Package(TheModule, V2, <<"c">>, <<<<"c", "=", "c">>>>, <<<<"-", "c">>>>)}
    /\ log = <<>>

NextModFile ==
    \/ ModOpen \/ ModSetDirectRequire \/ ModSetReplace \/ ModFlush
    \/ ModReload \/ ModClose \/ FlushWrite

SpecModFile == InitModFile /\ [][NextModFile]_vars

----------------------------------------------------------------------------
(* parseTarget on its own: every raw target over a small alphabet.         *)

ParseTargetStep ==
    /\ parsed = Pending
    /\ parsed' = parseTarget(rawTarget)
    /\ UNCHANGED <<rawTarget, modVars, getVars>>

InitParseVersions ==
    /\ rawTarget \in Str({"a", "@", ",", "v", "none"}, MaxVersionsLen)
    /\ parsed = Pending
    /\ ModIdle
    /\ GetIdle

InitParseLocator ==
    /\ rawTarget \in Str({"/", "v", "2", "A"}, MaxLocatorLen)
    /\ parsed = Pending
    /\ ModIdle
    /\ GetIdle

SpecParseVersions == InitParseVersions /\ [][ParseTargetStep]_vars

SpecParseLocator == InitParseLocator /\ [][ParseTargetStep]_vars

----------------------------------------------------------------------------
(* get.go: get up to its getPackage calls.                                 *)

\* What get decided before its first getPackage call: how it goes on ("continue"
\* to the getPackage calls, "nil" for a return of errors.Wrapf on a nil error,
\* which is nil, "remove" for @none, "error"), the error, the branch, the
\* names, the targets, len(versions), the ModFiles opened (their Close is
\* deferred) and the files to remove.
Plan(ret, e, mode, targetName, oldName, targets, nversions, opened, remove) ==
    [ret |-> ret, err |-> e, mode |-> mode, targetName |-> targetName,
     oldName |-> oldName, targets |-> targets, nversions |-> nversions,
     opened |-> opened, remove |-> remove]

PlanError(e) == Plan("error", e, "", <<>>, <<>>, <<>>, 0, <<>>, {})

\* OpenModFile on each of the files `existing`.
OpenAll(fs, existing) ==
    [k \in 1..Len(existing) |-> OpenModFile(existing[k], fs[existing[k]])]

RECURSIVE targetsLoop(_, _, _, _, _, _)
\* The loop over versions (get.go:254-294) from its i-th round: open[i] is what
\* OpenModFile gives on the i-th existing file, pkgPath the package path known
\* so far, plan the plan with the targets and the ModFiles of the rounds before.
targetsLoop(open, update, versions, pkgPath, i, plan) ==
    IF i > Len(versions) THEN plan
    ELSE
      LET blank == Package(<<>>, versions[i], pkgPath, <<>>, <<>>)
          opened2 == [plan EXCEPT !.opened = Append(@, open[i])]
      IN
      IF Len(open) >= i
      THEN
        IF open[i].err # ""
        THEN [plan EXCEPT !.ret = "error", !.err = "unparsable mod file"]
        ELSE IF DirectPackage(open[i]) # <<>>
        THEN LET d == DirectPackage(open[i])[1]
                 target == Package(d.Module.Path,
                                   IF versions[i] = <<>> /\ ~update
                                   THEN d.Module.Version ELSE versions[i],
                                   d.RelPath, <<>>, <<>>)
             IN IF Path(blank) # <<>> /\ Path(blank) # Path(d)
                THEN [opened2 EXCEPT !.ret = "error", !.err = "different package path"]
                ELSE IF Path(target) = <<>>
                THEN [opened2 EXCEPT !.ret = "error", !.err = "never installed"]
                ELSE targetsLoop(open, update, versions, Path(target), i + 1,
                                 [opened2 EXCEPT !.targets = Append(@, target)])
        ELSE IF Path(blank) = <<>> THEN [opened2 EXCEPT !.ret = "nil"]
        ELSE targetsLoop(open, update, versions, pkgPath, i + 1,
                         [opened2 EXCEPT !.targets = Append(@, blank)])
      ELSE IF Path(blank) = <<>>
      THEN [plan EXCEPT !.ret = "error", !.err = "never installed"]
      ELSE targetsLoop(open, update, versions, pkgPath, i + 1,
                       [plan EXCEPT !.targets = Append(@, blank)])

RECURSIVE renameLoop(_, _, _)
\* The loop over the existing files of a rename (get.go:200-211).
renameLoop(open, i, plan) ==
    IF i > Len(open) THEN plan
    ELSE IF open[i].err # ""
    THEN [plan EXCEPT !.ret = "error", !.err = "unparsable mod file"]
    ELSE IF DirectPackage(open[i]) = <<>>
    THEN [plan EXCEPT !.ret = "nil", !.opened = Append(@, open[i])]
    ELSE renameLoop(open, i + 1,
                    [plan EXCEPT !.opened = Append(@, open[i]),
                                 !.targets = Append(@, DirectPackage(open[i])[1]),
                                 !.nversions = @ + 1])

\* get.go:171-211
renamePlan(fs, c, p) ==
    IF p.pkgPath # <<>> THEN PlanError("-r by path")
    ELSE IF p.versions[1] # <<>> \/ Len(p.versions) > 1 THEN PlanError("-r with version")
    ELSE IF validateNewName(p.versions, p.name, c.rename) # "" THEN PlanError("-r")
    ELSE IF Len(existingModFiles(fs, c.rename)) > 0 THEN PlanError("NameCollision")
    ELSE IF Len(existingModFiles(fs, p.name)) = 0 THEN PlanError("nothing to rename")
    ELSE renameLoop(OpenAll(fs, existingModFiles(fs, p.name)), 1,
                    Plan("continue", "", "rename", c.rename, p.name, <<>>, 0, <<>>, {}))

\* get.go:223-294, `existing` being existingModFiles of the target name.
installPlan(fs, c, p, targetName, existing) ==
    LET versions == IF p.versions[1] = <<>> /\ Len(existing) > 1 /\ ~c.update
                    THEN [k \in 1..Len(existing) |-> <<>>]
                    ELSE p.versions
    IN IF c.name # <<>> /\ validateNewName(p.versions, p.name, c.name) # ""
       THEN PlanError("-n")
       ELSE IF p.versions[1] = NoneVersion
       THEN IF p.pkgPath # <<>> THEN PlanError("delete by path")
            ELSE IF Len(existing) = 0 THEN PlanError("nothing to delete")
            ELSE Plan("remove", "", "none", targetName, <<>>, <<>>, 0, <<>>,
                      NameDotStarOf(fs, p.name))
       ELSE targetsLoop(OpenAll(fs, existing), c.update, versions, p.pkgPath, 1,
                        Plan("continue", "", "get", targetName, <<>>, <<>>,
                             Len(versions), <<>>, {}))

\* get.go:155-169 and the branch taken after it, p being parseTarget's result.
getPlan(fs, c, p) ==
    IF p.err # "" THEN PlanError("parse")
    ELSE IF c.update /\ (p.versions[1] # <<>> \/ Len(p.versions) > 1)
    THEN PlanError("-u with version")
    ELSE IF c.rename # <<>> THEN renamePlan(fs, c, p)
    ELSE installPlan(fs, c, p, IF c.name # <<>> THEN c.name ELSE p.name,
                     existingModFiles(fs, IF c.name # <<>> THEN c.name ELSE p.name))

\* The getPackage calls of a plan: index, name and target of each.
WorkOf(name, targets) ==
    [j \in 1..Len(targets) |-> [i |-> j - 1, name |-> name, target |-> targets[j]]]

----------------------------------------------------------------------------
(* pkg/bingo/mod.go: ListPinnedMainPackages and ToPackages                 *)

\* The body of ListPinnedMainPackages' loop for file f with direct package pkg.
AddPinned(pkgs, f, pkg) ==
    LET name == NameFromModFile(f)
        known == {i \in 1..Len(pkgs) : pkgs[i].Name = name}
    IN IF known # {}
       THEN LET i == CHOOSE x \in known : \A y \in known : x <= y IN
            IF f = name \o DotMod
            THEN [pkgs EXCEPT ![i].Versions = <<pkg.Module.Version>> \o @]
            ELSE [pkgs EXCEPT ![i].Versions = Append(@, pkg.Module.Version)]
       ELSE Append(pkgs, [Name |-> name, ModPath |-> pkg.Module.Path,
                          PackagePath |-> Path(pkg),
                          Versions |-> <<pkg.Module.Version>>])

\* PackageRenderable.ToPackages; filepath.Rel is that of a package path that
\* is the module path or lies below it.
ToPackages(p) ==
    LET relPath == IF p.PackagePath = p.ModPath THEN <<".">>
                   ELSE TrimPrefix(p.PackagePath, p.ModPath \o <<"/">>)
    IN [j \in 1..Len(p.Versions) |->
          Package(p.ModPath, p.Versions[j], relPath, <<>>, <<>>)]

RECURSIVE WorkOfAll(_)
\* getAll's getPackage calls (get.go:118-124).
WorkOfAll(pkgs) ==
    IF pkgs = <<>> THEN <<>>
    ELSE WorkOf(Head(pkgs).Name, ToPackages(Head(pkgs))) \o WorkOfAll(Tail(pkgs))

----------------------------------------------------------------------------
(* The toolchain (package runner, which the sources import): what go mod   *)
(* init, go get -d, go list and go build may answer.                       *)

OtherModule == <<"h", "/", "o", "/", "x">>
ThirdModule == <<"h", "/", "o", "/", "y">>

\* go get -d on an empty module file: it fails, or it leaves the modules it
\* added as indirect requires.  The version is the one asked for, the latest
\* (V2) when none was or an update is asked for.
GetDAnswers(target, update) ==
    LET v == IF target.Module.Version = <<>> \/ update THEN V2
             ELSE target.Module.Version
        Mod(path, version) == [Path |-> path, Version |-> version]
    IN {[ok |-> FALSE, mods |-> <<>>],
        [ok |-> TRUE, mods |-> <<>>],
        [ok |-> TRUE, mods |-> <<Mod(TheModule, v)>>],
        [ok |-> TRUE, mods |-> <<Mod(OtherModule, V1), Mod(TheModule, v)>>],
        [ok |-> TRUE, mods |-> <<Mod(OtherModule, V1), Mod(ThirdModule, V1)>>]}

\* The module file go get -d leaves.
AfterGetD(mods) ==
    ModContent(<<>>, [k \in 1..Len(mods) |->
                        Require(mods[k].Path, mods[k].Version, TRUE, <<>>)],
               <<>>, FALSE)

\* The replace statements of the target module's own go.mod.
UpstreamReplaces == {<<>>, <<"r1">>}

MainKind == <<"m", "a", "i", "n">>

\* go list -mod=mod -f={{.Name}}: it fails, or it prints the package's name
\* and may have added requires to the module file (tidy).
ListAnswers ==
    {[ok |-> FALSE, kind |-> <<>>, tidy |-> FALSE]}
    \cup {[ok |-> TRUE, kind |-> k, tidy |-> t] :
            k \in {MainKind, <<"l", "i", "b">>, <<"d", "o">> \o MainKind},
            t \in BOOLEAN}

Tidied(bytes) ==
    [bytes EXCEPT !.requires = Append(@, Require(OtherModule, V1, TRUE, <<>>))]

----------------------------------------------------------------------------
(* get.go: get, getAll, getPackage and install, step by step.              *)

\* The variables holding ModFiles: mf of the ModFile machine, o of
\* CreateFromExistingOrNew and ModDirectPackage, tmpEmptyModFile and
\* tmpModFile of getPackage, and the mf of each round of get's loops.
LoopHandles ==
    <<"e1", "e2", "e3", "e4", "e5", "e6", "e7", "e8", "e9", "e10", "e11", "e12", "e13">>
Handles == {"mf", "o", "empty", "tmp"} \cup {LoopHandles[k] : k \in DOMAIN LoopHandles}

\* os.Rename on the files and on the handles open on them.
RenameFile(fs, from, to) ==
    [n \in (DOMAIN fs \ {from}) \cup {to} |-> IF n = to THEN fs[from] ELSE fs[n]]

RenameHandles(hs, from, to) ==
    [h \in DOMAIN hs |->
        IF hs[h].at = <<to>> THEN [hs[h] EXCEPT !.at = <<>>]
        ELSE IF hs[h].at = <<from>> THEN [hs[h] EXCEPT !.at = <<to>>]
        ELSE hs[h]]

\* The commands of the model.
ToolName == <<"t">>
NewName == <<"n">>
ThePackage == TheModule \o <<"/">> \o ToolName

RawTargets ==
    {<<>>, ToolName, ToolName \o <<"@">> \o V2,
     ToolName \o <<"@">> \o V1 \o <<",">> \o V2,
     ToolName \o <<"@", "none">>, ThePackage \o <<"@", "none">>,
     ThePackage, ThePackage \o <<"@">> \o V2,
     ThePackage \o <<"@">> \o V1 \o <<",">> \o V2}

Commands ==
    {[raw |-> r, update |-> u, name |-> n, rename |-> rn, link |-> l, verbose |-> FALSE] :
        r \in RawTargets, u \in BOOLEAN, n \in {<<>>, NewName},
        rn \in {<<>>, NewName}, l \in BOOLEAN}

\* get up to its first getPackage call (get.go:142-294), getAll up to the
\* listing (get.go:106-113).  The command line is any of `commands`, the
\* same as before when the invocation is repeated.
GetOf(commands) ==
    /\ pc = "idle"
    /\ io = NoIO
    /\ \E c \in {x \in commands : prev = <<>> \/ x = cmd} :
       \E fs1 \in {WriteFile(RemoveFiles(files, TmpFilesOf(files)),
                              FakeRootModFileName,
                              ModContent(<<FakeComment>>, <<>>, <<>>, FALSE))} :
       \E plan \in {getPlan(fs1, c, parseTarget(c.raw))} :
         LET n == Len(plan.opened)
             hs == [h \in Handles |->
                      IF \E k \in 1..n : LoopHandles[k] = h
                      THEN plan.opened[CHOOSE k \in 1..n : LoopHandles[k] = h]
                      ELSE NoModFile]
             defers == [k \in 1..n |-> LoopHandles[n + 1 - k]]
         IN /\ cmd' = c
            /\ rawTarget' = c.raw
            /\ pre' = files
            /\ commits' = <<>>
            /\ IF c.raw = <<>>
               THEN /\ parsed' = Pending
                    /\ files' = fs1
                    /\ mfs' = [h \in Handles |-> NoModFile]
                    /\ IF c.name # <<>> \/ c.rename # <<>>
                       THEN /\ getErr' = "no target"
                            /\ pc' = "getDefer"
                            /\ inv' = NoInv
                       ELSE /\ getErr' = ""
                            /\ pc' = "list"
                            /\ inv' = [NoInv EXCEPT !.mode = "all",
                                          !.listing = LET M(f) == HasSuffix(f, DotMod)
                                                      IN Glob(fs1, M)]
               ELSE /\ parsed' = parseTarget(c.raw)
                    /\ files' = RemoveFiles(fs1, plan.remove)
                    /\ mfs' = hs
                    /\ getErr' = plan.err
                    /\ inv' = [NoInv EXCEPT
                                  !.mode = plan.mode,
                                  !.targetName = plan.targetName,
                                  !.oldName = plan.oldName,
                                  !.work = WorkOf(plan.targetName, plan.targets),
                                  !.k = 1,
                                  !.nversions = plan.nversions,
                                  !.defers = defers]
                    /\ pc' = IF plan.ret = "continue" /\ Len(plan.targets) > 0
                             THEN "getPackage"
                             ELSE IF plan.ret = "continue" THEN "after"
                             ELSE "getDefer"
    /\ UNCHANGED <<io, rec, log, gp, bin, cache, prev>>

Get == GetOf(Commands)

\* One round of ListPinnedMainPackages' loop (mod.go:493-543): ModDirectPackage
\* opens the file and its deferred Close flushes it.
ListStep ==
    /\ pc = "list"
    /\ io = NoIO
    /\ inv.listing # <<>>
    /\ LET f == Head(inv.listing)
           mf == OpenModFile(f, files[f])
           rest == [inv EXCEPT !.listing = Tail(@)]
       IN IF f = FakeRootModFileName \/ mf.err # ""
          THEN /\ inv' = rest
               /\ UNCHANGED <<files, mfs, io>>
          ELSE /\ mfs' = [mfs EXCEPT !["o"] = mf]
               /\ files' = TruncateHandle(files, mf)
               /\ io' = <<[h |-> "o", close |-> TRUE]>>
               /\ inv' = IF DirectPackage(mf) = <<>> THEN rest
                         ELSE [rest EXCEPT !.pkgs = AddPinned(@, f, DirectPackage(mf)[1])]
    /\ UNCHANGED <<rec, log, parseVars, pc, cmd, gp, getErr, pre, commits, bin, cache, prev>>

\* getAll's loop starts (get.go:118).
ListDone ==
    /\ pc = "list"
    /\ io = NoIO
    /\ inv.listing = <<>>
    /\ inv' = [inv EXCEPT !.work = WorkOfAll(inv.pkgs), !.k = 1]
    /\ pc' = IF WorkOfAll(inv.pkgs) = <<>> THEN "getDefer" ELSE "getPackage"
    /\ UNCHANGED <<modVars, parseVars, cmd, gp, getErr, pre, commits, bin, cache, prev>>

\* The locals of the getPackage call that starts or runs.
CurGp ==
    IF pc = "getPackage"
    THEN [NoGp EXCEPT !.name = inv.work[inv.k].name, !.i = inv.work[inv.k].i,
                      !.target = inv.work[inv.k].target]
    ELSE gp

GpFail(g, e) ==
    /\ gp' = [g EXCEPT !.err = e]
    /\ pc' = "gpDefer"

\* getPackage's resolution (get.go:547-565): the empty tmp module file, go
\* get -d, resolvePackage and autoFetchReplaceStatements.
GpResolve ==
    /\ pc = "getPackage"
    /\ io = NoIO
    /\ NeedsResolve(CurGp.target, cmd.update)
    /\ LET g == CurGp
           empty == TmpEmptyModFile(g.name, g.i)
           fs1 == RemoveFiles(files, {empty})
           hs1 == DetachHandles(mfs, {empty})
       IN \E initOK \in BOOLEAN :
            IF ~initOK
            THEN /\ files' = fs1
                 /\ mfs' = hs1
                 /\ GpFail(g, "mod init")
            ELSE
              \E a \in GetDAnswers(g.target, cmd.update), r \in UpstreamReplaces :
                LET bytes == IF a.ok THEN AfterGetD(a.mods) ELSE FreshModFile
                    res == resolvePackage(a.ok, bytes, cache, cmd.verbose,
                                          cmd.update, g.target)
                    g1 == [g EXCEPT !.defers = <<"empty">>, !.target = res.target]
                IN /\ files' = WriteFile(fs1, empty, bytes)
                   /\ mfs' = [hs1 EXCEPT !["empty"] = OpenModFile(empty, FreshModFile)]
                   /\ IF res.err # "" THEN GpFail(g1, res.err)
                      ELSE /\ gp' = [g1 EXCEPT !.replaceStmts = r]
                           /\ pc' = "stage"
    /\ UNCHANGED <<io, rec, log, parseVars, cmd, inv, getErr, pre, commits, bin, cache, prev>>

\* Prepared without the build envs and flags of the old direct package.
PreparedAfresh(mf, g) ==
    LET mf1 == IF ~mf.autoReplaceDisabled /\ Len(g.replaceStmts) > 0
               THEN SetReplace(mf, g.replaceStmts) ELSE mf
    IN [mf |-> SetDirectRequire(mf1, g.target), target |-> g.target]

\* get.go:577-593 up to Flush's Truncate: the replace statements, the build
\* envs and flags of the old direct package, SetDirectRequire.
Prepared(mf, g) ==
    LET mf1 == IF ~mf.autoReplaceDisabled /\ Len(g.replaceStmts) > 0
               THEN SetReplace(mf, g.replaceStmts) ELSE mf
        old == DirectPackage(mf1)
        target == IF old # <<>>
                  THEN [g.target EXCEPT !.BuildEnvs = old[1].BuildEnvs,
                                        !.BuildFlags = old[1].BuildFlags]
                  ELSE g.target
    IN [mf |-> SetDirectRequire(mf1, target), target |-> target]

\* getPackage's staging (get.go:568-572) into CreateFromExistingOrNew
\* (mod.go:120-150): with a file of record that opens, up to the Truncate of
\* o.Close(); without, through go mod init up to the Truncate of Flush.
GpStage ==
    /\ io = NoIO
    /\ \/ pc = "stage"
       \/ pc = "getPackage" /\ ~NeedsResolve(CurGp.target, cmd.update)
    /\ LET g == CurGp
           out == OutModFile(g.name, g.i)
           tmp == TmpModFile(g.name, g.i)
           gone == TmpFilesOf(files) \cup {tmp}
           fs1 == RemoveFiles(files, gone)
           hs1 == DetachHandles(mfs, gone)
           o == IF Exists(fs1, out) THEN OpenModFile(out, fs1[out]) ELSE NoModFile
       IN IF Exists(fs1, out) /\ o.err = ""
          THEN /\ files' = TruncateHandle(fs1, o)
               /\ mfs' = [hs1 EXCEPT !["o"] = o]
               /\ io' = <<[h |-> "o", close |-> TRUE]>>
               /\ gp' = g
               /\ pc' = "copy"
          ELSE \E initOK \in BOOLEAN :
                 IF ~initOK
                 THEN /\ files' = fs1
                      /\ mfs' = hs1
                      /\ io' = io
                      /\ GpFail(g, "mod init")
                 ELSE LET p == Prepared(OpenModFile(tmp, FreshModFile), g) IN
                      /\ files' = WriteFile(fs1, tmp, EmptyFile)
                      /\ mfs' = [hs1 EXCEPT !["tmp"] = p.mf]
                      /\ io' = <<[h |-> "tmp", close |-> FALSE]>>
                      /\ gp' = [g EXCEPT !.target = p.target,
                                         !.defers = <<"tmp">> \o @]
                      /\ pc' = "install"
    /\ UNCHANGED <<rec, log, parseVars, cmd, inv, getErr, pre, commits, bin, cache, prev>>

\* CreateFromExistingOrNew after o.Close() (mod.go:135-141) and getPackage up to
\* the Truncate of Flush.
GpCopy ==
    /\ pc = "copy"
    /\ io = NoIO
    /\ LET out == OutModFile(gp.name, gp.i)
           tmp == TmpModFile(gp.name, gp.i)
           mf == OpenModFile(tmp, files[out])
           p == Prepared(mf, gp)
       IN IF mfs["o"].err # ""
          THEN /\ GpFail(gp, "close")
               /\ UNCHANGED <<files, mfs, io>>
          ELSE IF mf.err # ""
          THEN /\ files' = WriteFile(files, tmp, files[out])
               /\ GpFail(gp, "open")
               /\ UNCHANGED <<mfs, io>>
          ELSE /\ files' = WriteFile(files, tmp, EmptyFile)
               /\ mfs' = [mfs EXCEPT !["tmp"] = p.mf]
               /\ io' = <<[h |-> "tmp", close |-> FALSE]>>
               /\ gp' = [gp EXCEPT !.target = p.target, !.defers = <<"tmp">> \o @]
               /\ pc' = "install"
    /\ UNCHANGED <<rec, log, parseVars, cmd, inv, getErr, pre, commits, bin, cache, prev>>

\* install up to the build (get.go:662-677): the name check and go list,
\* which fails when the module file it is given is not there.
GpList ==
    /\ pc = "install"
    /\ io = NoIO
    /\ LET tmp == TmpModFile(gp.name, gp.i) IN
       IF mfs["tmp"].err # ""
       THEN GpFail(gp, "flush") /\ UNCHANGED files
       ELSE IF validateTargetName(gp.name) # ""
       THEN GpFail(gp, validateTargetName(gp.name)) /\ UNCHANGED files
       ELSE \E a \in {x \in ListAnswers : Exists(files, tmp) \/ ~x.ok} :
              IF ~a.ok THEN GpFail(gp, "list") /\ UNCHANGED files
              ELSE /\ files' = IF a.tidy THEN WriteFile(files, tmp, Tidied(files[tmp]))
                               ELSE files
                   /\ IF ~HasSuffix(a.kind, MainKind)
                      THEN GpFail([gp EXCEPT !.kind = a.kind], "NotInstallable")
                      ELSE /\ gp' = [gp EXCEPT !.kind = a.kind]
                           /\ pc' = "build"
    /\ UNCHANGED <<mfs, io, rec, log, parseVars, cmd, inv, getErr, pre, commits, bin, cache, prev>>

\* A binary path without the version.
BinPathUnversioned(g, pkg) == g.name \o <<"-">>

BinPath(g, pkg) == g.name \o <<"-">> \o pkg.Module.Version

\* AfterBuild of a getPackage that goes on to the rename whether the build
\* failed or not.
AfterBuildAnyway(ok, link) == IF link THEN "unlink" ELSE "rename"

\* Where getPackage goes on after the build (get.go:597-599, 683-689): to its
\* return when the build failed, else over the link, when asked for, to the
\* rename.
AfterBuild(ok, link) ==
    IF ~ok THEN "gpDefer" ELSE IF link THEN "unlink" ELSE "rename"

\* go build -o (get.go:682-685), which fails when the module file it is
\* given is not there.
GpBuild ==
    /\ pc = "build"
    /\ LET pkg == DirectPackage(mfs["tmp"])[1] IN
       \E ok \in {x \in BOOLEAN : Exists(files, TmpModFile(gp.name, gp.i)) \/ ~x} :
         /\ bin' = IF ok THEN WriteFile(bin, BinPath(gp, pkg),
                                       [link |-> FALSE, to |-> String(pkg)])
                   ELSE bin
         /\ gp' = IF ok THEN gp ELSE [gp EXCEPT !.err = "build versioned"]
         /\ pc' = AfterBuild(ok, cmd.link)
    /\ UNCHANGED <<modVars, parseVars, cmd, inv, getErr, pre, commits, cache, prev>>

\* os.RemoveAll of the old symlink (get.go:691)
GpUnlink ==
    /\ pc = "unlink"
    /\ bin' = RemoveFiles(bin, {gp.name})
    /\ pc' = "symlink"
    /\ UNCHANGED <<modVars, parseVars, cmd, inv, gp, getErr, pre, commits, cache, prev>>

\* os.Symlink (get.go:694)
GpSymlink ==
    /\ pc = "symlink"
    /\ LET pkg == DirectPackage(mfs["tmp"])[1] IN
       \E ok \in BOOLEAN :
         IF ~ok THEN GpFail(gp, "symlink") /\ UNCHANGED bin
         ELSE /\ bin' = WriteFile(bin, gp.name, [link |-> TRUE, to |-> BinPath(gp, pkg)])
              /\ pc' = "rename"
              /\ gp' = gp
    /\ UNCHANGED <<modVars, parseVars, cmd, inv, getErr, pre, commits, cache, prev>>

\* os.Rename of the tmp module file over the file of record (get.go:602)
GpRename ==
    /\ pc = "rename"
    /\ LET out == OutModFile(gp.name, gp.i)
           tmp == TmpModFile(gp.name, gp.i)
       IN IF Exists(files, tmp)
          THEN /\ files' = RenameFile(files, tmp, out)
               /\ mfs' = RenameHandles(mfs, tmp, out)
               /\ commits' = Append(commits, out)
               /\ gp' = gp
          ELSE /\ gp' = [gp EXCEPT !.err = "rename"]
               /\ UNCHANGED <<files, mfs, commits>>
    /\ pc' = "gpDefer"
    /\ UNCHANGED <<io, rec, log, parseVars, cmd, inv, getErr, pre, bin, cache, prev>>

\* A deferred Close of getPackage, up to its Truncate.
GpDefer ==
    /\ pc = "gpDefer"
    /\ io = NoIO
    /\ gp.defers # <<>>
    /\ files' = TruncateHandle(files, mfs[Head(gp.defers)])
    /\ io' = <<[h |-> Head(gp.defers), close |-> TRUE]>>
    /\ gp' = [gp EXCEPT !.defers = Tail(@)]
    /\ UNCHANGED <<mfs, rec, log, parseVars, pc, cmd, inv, getErr, pre, commits, bin, cache, prev>>

\* getPackage returns into the loop that called it (get.go:118-124, 213-217,
\* 296-300).
GpReturn ==
    /\ pc = "gpDefer"
    /\ io = NoIO
    /\ gp.defers = <<>>
    /\ IF gp.err # ""
       THEN /\ getErr' = gp.err
            /\ pc' = "getDefer"
            /\ inv' = inv
       ELSE /\ getErr' = getErr
            /\ inv' = [inv EXCEPT !.k = @ + 1]
            /\ pc' = IF inv.k < Len(inv.work) THEN "getPackage" ELSE "after"
    /\ UNCHANGED <<modVars, parseVars, cmd, gp, pre, commits, bin, cache, prev>>

\* After the last getPackage: the unused array files go (get.go:303-316), or
\* the files of the old name (get.go:220).
GetAfter ==
    /\ pc = "after"
    /\ LET gone == IF inv.mode = "get"
                   THEN UnusedArrFiles(files, inv.targetName, inv.nversions)
                   ELSE IF inv.mode = "rename" THEN NameDotStarOf(files, inv.oldName)
                   ELSE {}
       IN /\ files' = RemoveFiles(files, gone)
          /\ mfs' = DetachHandles(mfs, gone)
    /\ pc' = "getDefer"
    /\ UNCHANGED <<io, rec, log, parseVars, cmd, inv, gp, getErr, pre, commits, bin, cache, prev>>

\* A deferred Close of get (get.go:205, 264), up to its Truncate.
GetDefer ==
    /\ pc = "getDefer"
    /\ io = NoIO
    /\ inv.defers # <<>>
    /\ files' = TruncateHandle(files, mfs[Head(inv.defers)])
    /\ io' = <<[h |-> Head(inv.defers), close |-> TRUE]>>
    /\ inv' = [inv EXCEPT !.defers = Tail(@)]
    /\ UNCHANGED <<mfs, rec, log, parseVars, pc, cmd, gp, getErr, pre, commits, bin, cache, prev>>

\* get returns.
GetDone ==
    /\ pc = "getDefer"
    /\ io = NoIO
    /\ inv.defers = <<>>
    /\ pc' = "done"
    /\ UNCHANGED <<modVars, parseVars, cmd, inv, gp, getErr, pre, commits, bin, cache, prev>>

\* The pin directories an invocation may start in: t.mod, t.1.mod and t.2.mod
\* each absent or a manifest, generated (Pinned), hand-edited (no marker, a
\* further require), without a require, or unparsable.
SubT == <<"/", "/", " ">> \o ToolName

Pinned(v) ==
    ModContent(<<MetaComment>>, <<Require(TheModule, v, FALSE, SubT)>>, <<>>, FALSE)

HandEdited(v) ==
    ModContent(<<>>, <<Require(OtherModule, V1, TRUE, <<>>),
                       Require(TheModule, v, FALSE, SubT)>>, <<>>, FALSE)

NoRequire == ModContent(<<MetaComment>>, <<>>, <<>>, FALSE)

DirOf(c0, c1, c2) ==
    LET names == (IF c0 = <<>> THEN {} ELSE {OutModFile(ToolName, 0)})
                 \cup (IF c1 = <<>> THEN {} ELSE {OutModFile(ToolName, 1)})
                 \cup (IF c2 = <<>> THEN {} ELSE {OutModFile(ToolName, 2)})
    IN [n \in names |->
          IF n = OutModFile(ToolName, 0) THEN c0[1]
          ELSE IF n = OutModFile(ToolName, 1) THEN c1[1] ELSE c2[1]]

PinDirs ==
    {DirOf(c0, c1, c2) :
        c0 \in {<<>>, <<Pinned(V1)>>, <<HandEdited(V1)>>, <<NoRequire>>, <<Garbage>>},
        c1 \in {<<>>, <<Pinned(V2)>>, <<Garbage>>},
        c2 \in {<<>>, <<Pinned(V2)>>}}

Caches ==
    {<<>>, [m \in {TheModule} |-> [hasList |-> TRUE, list |-> <<V1, V2>>, infos |-> {V1, V2}]]}

Init ==
    /\ rawTarget = <<>>
    /\ parsed = Pending
    /\ files \in PinDirs
    /\ mfs = [h \in Handles |-> NoModFile]
    /\ io = NoIO
    /\ rec = Package(<<>>, <<>>, <<>>, <<>>, <<>>)
    /\ log = <<>>
    /\ pc = "idle"
    /\ cmd = NoCmd
    /\ inv = NoInv
    /\ gp = NoGp
    /\ getErr = ""
    /\ pre = files
    /\ commits = <<>>
    /\ bin = <<>>
    /\ cache \in Caches
    /\ prev = <<>>

Next ==
    \/ Get \/ ListStep \/ ListDone
    \/ GpResolve \/ GpStage \/ GpCopy \/ GpList \/ GpBuild \/ GpUnlink
    \/ GpSymlink \/ GpRename \/ GpDefer \/ GpReturn
    \/ GetAfter \/ GetDefer \/ GetDone
    \/ FlushWrite

Spec == Init /\ [][Next]_vars

----------------------------------------------------------------------------
(* A pin directory of installed tools: the tool t with its binaries, with  *)
(* replace directives in its manifest, a second tool u, and a third whose  *)
(* name, t.x, is that of a package h/o/m/t.x.  A command that succeeded    *)
(* may be run once more.                                                   *)

OtherTool == <<"u">>
DottedTool == ToolName \o <<".", "x">>

\* The manifest of a tool installed under the name of its package.
PinnedAs(name, modPath) ==
    ModContent(<<MetaComment>>,
               <<Require(modPath, V1, FALSE, <<"/", "/", " ">> \o name)>>,
               <<>>, FALSE)

\* A manifest of t with a replace directive, with or without the comment
\* that disables the fetching of replace directives.
Replaced(v, noReplace) ==
    ModContent(<<MetaComment>>, <<Require(TheModule, v, FALSE, SubT)>>,
               <<"r0">>, noReplace)

InstalledDirs ==
    {[n \in DOMAIN DirOf(c0, c1, <<>>) \cup others |->
        IF n = OutModFile(OtherTool, 0) THEN PinnedAs(OtherTool, OtherModule)
        ELSE IF n = OutModFile(DottedTool, 0) THEN PinnedAs(DottedTool, TheModule)
        ELSE DirOf(c0, c1, <<>>)[n]] :
        c0 \in {<<>>, <<Pinned(V1)>>, <<HandEdited(V1)>>,
                <<Replaced(V1, FALSE)>>, <<Replaced(V1, TRUE)>>},
        c1 \in {<<>>, <<Pinned(V2)>>},
        others \in {{OutModFile(OtherTool, 0)},
                    {OutModFile(OtherTool, 0), OutModFile(DottedTool, 0)}}}

\* GOBIN after t and u were installed with a link.
InstalledBins ==
    LET built(name, pkg) ==
          [n \in {name \o <<"-">> \o pkg.Module.Version, name} |->
             IF n = name
             THEN [link |-> TRUE, to |-> name \o <<"-">> \o pkg.Module.Version]
             ELSE [link |-> FALSE, to |-> String(pkg)]]
    IN built(ToolName, Package(TheModule, V1, ToolName, <<>>, <<>>))
       @@ built(OtherTool, Package(OtherModule, V1, OtherTool, <<>>, <<>>))

\* An invocation about to start in one of the pin directories `dirs`.
World(dirs, caches) ==
    /\ rawTarget = <<>>
    /\ parsed = Pending
    /\ files \in dirs
    /\ mfs = [h \in Handles |-> NoModFile]
    /\ io = NoIO
    /\ rec = Package(<<>>, <<>>, <<>>, <<>>, <<>>)
    /\ log = <<>>
    /\ pc = "idle"
    /\ cmd = NoCmd
    /\ inv = NoInv
    /\ gp = NoGp
    /\ getErr = ""
    /\ pre = files
    /\ commits = <<>>
    /\ bin = InstalledBins
    /\ cache \in caches
    /\ prev = <<>>

InitInstalled == World(InstalledDirs, Caches \ {<<>>})

SpecInstalled == InitInstalled /\ [][Next]_vars

\* The command that succeeded is run once more: the invocation that returned
\* is remembered by its getPackage calls and its commits.
Again ==
    /\ pc = "done"
    /\ getErr = ""
    /\ prev = <<>>
    /\ prev' = <<[work |-> inv.work, commits |-> commits]>>
    /\ pc' = "idle"
    /\ UNCHANGED <<modVars, parseVars, cmd, inv, gp, getErr, pre, commits, bin, cache>>

\* A tool pinned in ArrayLen versions, t.mod and t.1.mod to t.<ArrayLen-1>.mod:
\* the manifest of the last index holds v2, all others v1.
ArrayLen == 11

ArrayDir ==
    [f \in {OutModFile(ToolName, i) : i \in 0..(ArrayLen - 1)} |->
        IF f = OutModFile(ToolName, ArrayLen - 1) THEN Pinned(V2) ELSE Pinned(V1)]

InitArray == World({ArrayDir}, Caches \ {<<>>})

\* bingo get, and bingo get t with -u or -r n; each with or without -l.
ArrayCommands ==
    {c \in Commands : /\ c.raw \in {<<>>, ToolName}
                      /\ c.name = <<>>
                      /\ ~(c.update /\ (c.rename # <<>> \/ c.raw = <<>>))}

GetArray == GetOf(ArrayCommands)

NextArray ==
    \/ GetArray \/ ListStep \/ ListDone
    \/ GpResolve \/ GpStage \/ GpCopy \/ GpList \/ GpBuild \/ GpUnlink
    \/ GpSymlink \/ GpRename \/ GpDefer \/ GpReturn
    \/ GetAfter \/ GetDefer \/ GetDone
    \/ FlushWrite

SpecArray == InitArray /\ [][NextArray]_vars

InitTwice ==
    World({d \in InstalledDirs : OutModFile(DottedTool, 0) \notin DOMAIN d},
          Caches \ {<<>>})

NextTwice == Next \/ Again

SpecTwice == InitTwice /\ [][NextTwice]_vars

----------------------------------------------------------------------------
(* Tools under the names validateTargetName refuses: the package h/o/m/cmd, *)
(* the package h/o/m/go, the names given with -n and -r, and a manifest     *)
(* cmd.mod that somebody put into the pin directory.                        *)

CmdName == <<"c", "m", "d">>
RootName == TrimSuffix(FakeRootModFileName, DotMod)

ReservedDirs ==
    {[n \in {OutModFile(ToolName, 0)} \cup (IF c = <<>> THEN {} ELSE {OutModFile(CmdName, 0)}) |->
        IF n = OutModFile(ToolName, 0) THEN Pinned(V1) ELSE c[1]] :
        c \in {<<>>, <<PinnedAs(CmdName, TheModule)>>,
               <<ModContent(<<>>, <<Require(OtherModule, V1, TRUE, <<>>),
                                    Require(TheModule, V1, FALSE,
                                            <<"/", "/", " ">> \o CmdName)>>,
                            <<>>, FALSE)>>}}

ReservedCommands ==
    {[raw |-> r, update |-> u, name |-> n, rename |-> rn, link |-> l, verbose |-> FALSE] :
        r \in {<<>>, ToolName, ThePackage, CmdName, TheModule \o <<"/">> \o CmdName,
               TheModule \o <<"/">> \o RootName},
        u \in BOOLEAN, n \in {<<>>, CmdName, RootName},
        rn \in {<<>>, CmdName}, l \in BOOLEAN}

InitReserved == World(ReservedDirs, Caches \ {<<>>})

GetReserved == GetOf(ReservedCommands)

NextReserved ==
    \/ GetReserved \/ ListStep \/ ListDone
    \/ GpResolve \/ GpStage \/ GpCopy \/ GpList \/ GpBuild \/ GpUnlink
    \/ GpSymlink \/ GpRename \/ GpDefer \/ GpReturn
    \/ GetAfter \/ GetDefer \/ GetDone
    \/ FlushWrite

SpecReserved == InitReserved /\ [][NextReserved]_vars

----------------------------------------------------------------------------
(* Two invocations on one pin directory.  The one that installs t is the   *)
(* invocation of the model; of the other, which installs u, the steps that *)
(* touch the pin directory are taken: nothing in get or getPackage waits   *)
(* for, or looks for, another invocation.                                  *)

TwoDirs ==
    {d \in InstalledDirs : /\ DOMAIN d = {OutModFile(ToolName, 0), OutModFile(OtherTool, 0)}
                           /\ d[OutModFile(ToolName, 0)] = Pinned(V1)}

TwoCommands ==
    {c \in Commands : /\ c.raw \in {ToolName, ThePackage \o <<"@">> \o V2}
                      /\ c.name = <<>>
                      /\ c.rename = <<>>}

InitTwo == World(TwoDirs, Caches \ {<<>>})

GetTwo == GetOf(TwoCommands)

\* The other invocation's cleanGoGetTmpFiles and ensureModDirExists
\* (get.go:146-151).
OtherStart ==
    /\ pc \notin {"idle", "done"}
    /\ files' = WriteFile(RemoveFiles(files, TmpFilesOf(files)), FakeRootModFileName,
                          ModContent(<<FakeComment>>, <<>>, <<>>, FALSE))
    /\ mfs' = DetachHandles(mfs, TmpFilesOf(files))
    /\ UNCHANGED <<io, rec, log, parseVars, getVars>>

\* The other invocation's getPackage from its cleanGoGetTmpFiles to the Flush
\* of its staged manifest (get.go:568-593).
OtherStage ==
    /\ pc \notin {"idle", "done"}
    /\ files' = WriteFile(RemoveFiles(files, TmpFilesOf(files)), TmpModFile(OtherTool, 0),
                          PinnedAs(OtherTool, OtherModule))
    /\ mfs' = DetachHandles(mfs, TmpFilesOf(files))
    /\ UNCHANGED <<io, rec, log, parseVars, getVars>>

\* The other invocation's os.Rename (get.go:602), when its staged manifest is
\* still there.
OtherCommit ==
    /\ pc \notin {"idle", "done"}
    /\ Exists(files, TmpModFile(OtherTool, 0))
    /\ files' = RenameFile(files, TmpModFile(OtherTool, 0), OutModFile(OtherTool, 0))
    /\ mfs' = RenameHandles(mfs, TmpModFile(OtherTool, 0), OutModFile(OtherTool, 0))
    /\ UNCHANGED <<io, rec, log, parseVars, getVars>>

NextTwo ==
    \/ GetTwo
    \/ GpResolve \/ GpStage \/ GpCopy \/ GpList \/ GpBuild \/ GpUnlink
    \/ GpSymlink \/ GpRename \/ GpDefer \/ GpReturn
    \/ GetAfter \/ GetDefer \/ GetDone
    \/ FlushWrite
    \/ OtherStart \/ OtherStage \/ OtherCommit

SpecTwo == InitTwo /\ [][NextTwo]_vars

----------------------------------------------------------------------------
(* Manifests with build options: the direct require's comment names build  *)
(* envs and build flags after the sub package, as a user writes them in.   *)

EnvOpt == <<"c", "=", "c">>
FlagOpt == <<"-", "c">>

\* The manifest of t at version v with the build options `opts`.
WithOptions(v, opts) ==
    ModContent(<<MetaComment>>,
               <<Require(TheModule, v, FALSE, SubT \o <<" ">> \o opts)>>,
               <<>>, FALSE)

OptionDirs ==
    {[n \in {OutModFile(ToolName, 0)} \cup DOMAIN c1 |->
        IF n = OutModFile(ToolName, 0) THEN c0 ELSE c1[n]] :
        c0 \in {WithOptions(V1, EnvOpt \o <<" ">> \o FlagOpt), WithOptions(V1, FlagOpt)},
        c1 \in {<<>>, [n \in {OutModFile(ToolName, 1)} |-> WithOptions(V2, EnvOpt)]}}

OptionCommands ==
    {c \in Commands : /\ c.raw \in {ToolName, ToolName \o <<"@">> \o V2,
                                    ToolName \o <<"@">> \o V1 \o <<",">> \o V2,
                                    ThePackage \o <<"@">> \o V2}
                      /\ c.name = <<>>
                      /\ c.rename = <<>>
                      /\ c.update => c.raw = ToolName}

InitOptions == World(OptionDirs, Caches \ {<<>>})

GetOptions == GetOf(OptionCommands)

NextOptions ==
    \/ GetOptions
    \/ GpResolve \/ GpStage \/ GpCopy \/ GpList \/ GpBuild \/ GpUnlink
    \/ GpSymlink \/ GpRename \/ GpDefer \/ GpReturn
    \/ GetAfter \/ GetDefer \/ GetDone
    \/ FlushWrite

SpecOptions == InitOptions /\ [][NextOptions]_vars

----------------------------------------------------------------------------
(* Manifests that pin another package than the one asked for: under the    *)
(* name t, at any of three indices, under the name n of -n, and the        *)
(* manifest of the tool t.x.                                               *)

\* A manifest that pins the package h/o/x/u.
Foreign == PinnedAs(OtherTool, OtherModule)

SiblingDirs ==
    {DirOf(c0, c1, c2) @@ cn @@ cx :
        c0 \in {<<>>, <<Pinned(V1)>>, <<Foreign>>},
        c1 \in {<<>>, <<Pinned(V2)>>, <<Foreign>>, <<NoRequire>>},
        c2 \in {<<>>, <<Foreign>>},
        cn \in {<<>>, [f \in {OutModFile(NewName, 0)} |-> Foreign]},
        cx \in {<<>>, [f \in {OutModFile(DottedTool, 0)} |->
                          PinnedAs(DottedTool, TheModule)]}}

SiblingCommands ==
    {c \in Commands :
        /\ c.raw \in {ToolName, ToolName \o <<"@">> \o V1 \o <<",">> \o V2,
                      ThePackage, ThePackage \o <<"@">> \o V1 \o <<",">> \o V2}
        /\ c.rename = <<>>
        /\ c.name # <<>> => c.raw = ThePackage
        /\ c.update => c.raw = ToolName
        /\ c.link => c.raw = ThePackage}

InitSiblings == World(SiblingDirs, Caches \ {<<>>})

GetSiblings == GetOf(SiblingCommands)

NextSiblings ==
    \/ GetSiblings
    \/ GpResolve \/ GpStage \/ GpCopy \/ GpList \/ GpBuild \/ GpUnlink
    \/ GpSymlink \/ GpRename \/ GpDefer \/ GpReturn
    \/ GetAfter \/ GetDefer \/ GetDone
    \/ FlushWrite

SpecSiblings == InitSiblings /\ [][NextSiblings]_vars

----------------------------------------------------------------------------
(* resolvePackage and resolveInGoModCache on their own: one target, one    *)
(* module cache, one answer of go get -d.                                  *)

\* Most modules the cache of these runs holds a directory for.
MaxCachedModules == 2

\* The package of the targets, and its first n path elements.
DeepPackage == TheModule \o <<"/", "s", "/", "t">>
Prefix(p, n) == Join(SubSeq(Split(p, "/"), 1, n), <<"/">>)

\* Revisions of ShaPrefixLen characters, of more and of fewer, and the pseudo
\* version of the first two.
Rev12 == <<"a", "b", "c", "d", "e", "f", "0", "1", "2", "3", "4", "5">>
Rev13 == Rev12 \o <<"6">>
RevShort == <<"a", "b", "c">>
PseudoVersion == <<"v", "0", "-">> \o Rev12

\* @v directories: a complete one, one whose list is not sorted, one without
\* list, one with an empty list.
CacheDirs ==
    {[hasList |-> TRUE, list |-> <<V1, V2>>, infos |-> {V1, V2}],
     [hasList |-> TRUE, list |-> <<V2, V1>>, infos |-> {V1, PseudoVersion}],
     [hasList |-> FALSE, list |-> <<>>, infos |-> {V2, Rev12, RevShort}],
     [hasList |-> TRUE, list |-> <<>>, infos |-> {Rev12 \o <<"z">>}]}

ResolveCaches ==
    UNION {[ps -> CacheDirs] :
             ps \in {s \in SUBSET {Prefix(DeepPackage, n) : n \in 2..5} :
                       Cardinality(s) <= MaxCachedModules}}

\* The targets getPackage resolves: a package path without module (named on
\* the command line), or the module and sub package of a manifest.
ResolveTargets ==
    LET versions == {<<>>, V1, V2, Rev12, Rev13, RevShort} IN
    {Package(<<>>, v, Prefix(DeepPackage, n), <<>>, <<>>) : n \in 2..5, v \in versions}
    \cup {Package(TheModule, v, rel, <<>>, <<>>) :
            rel \in {<<>>, <<"s">>, <<"s", "/", "t">>}, v \in versions}

InitResolve ==
    /\ ParseIdle
    /\ ModIdle
    /\ pc = "resolve"
    /\ \E t \in ResolveTargets, u \in BOOLEAN, vb \in BOOLEAN :
         /\ NeedsResolve(t, u)
         /\ cmd = [NoCmd EXCEPT !.update = u, !.verbose = vb]
         /\ inv = [NoInv EXCEPT !.work = WorkOf(ToolName, <<t>>), !.k = 1]
         /\ gp = [NoGp EXCEPT !.name = ToolName, !.target = t]
    /\ getErr = ""
    /\ pre = <<>>
    /\ commits = <<>>
    /\ bin = <<>>
    /\ cache \in ResolveCaches
    /\ prev = <<>>

\* resolveInGoModCache on the target (get.go:405 after a go get -d that failed
\* without leaving anything).
ProbeStep ==
    /\ pc = "resolve"
    /\ LET found == resolveInGoModCache(cache, cmd.verbose, cmd.update, gp.target)
       IN gp' = [gp EXCEPT !.target = found.target, !.err = found.err]
    /\ pc' = "probed"
    /\ UNCHANGED <<modVars, parseVars, cmd, inv, getErr, pre, commits, bin, cache, prev>>

\* resolvePackage on the target: go get -d answers, its answer is in the empty
\* tmp module file and whether it succeeded in the log.
ResolveStep ==
    /\ pc = "resolve"
    /\ \E a \in GetDAnswers(gp.target, cmd.update) :
         LET bytes == IF a.ok THEN AfterGetD(a.mods) ELSE FreshModFile
             res == resolvePackage(a.ok, bytes, cache, cmd.verbose, cmd.update, gp.target)
         IN /\ files' = WriteFile(files, TmpEmptyModFile(gp.name, gp.i), bytes)
            /\ log' = <<IF a.ok THEN "GetD" ELSE "GetD failed">>
            /\ gp' = [gp EXCEPT !.target = res.target, !.err = res.err]
    /\ pc' = "resolved"
    /\ UNCHANGED <<mfs, io, rec, parseVars, cmd, inv, getErr, pre, commits, bin, cache, prev>>

NextResolve == ProbeStep \/ ResolveStep

SpecResolve == InitResolve /\ [][NextResolve]_vars

----------------------------------------------------------------------------
(* Claims about parseTarget.                                               *)

\* The text after the first "@" of a raw target, up to the next "@"; empty
\* when the target has no "@".
VersionSection(raw) ==
    LET s == Split(raw, "@") IN IF Len(s) > 1 THEN s[2] ELSE <<>>

VersionList(raw) == Split(VersionSection(raw), ",")

HasEqualEntries(list) ==
    \E i, j \in 1..Len(list) : i < j /\ list[i] = list[j]

HasNone(list) == \E i \in 1..Len(list) : list[i] = NoneVersion

\* C6: parseTarget fails for every (non-empty) target whose version list has
\* more than one entry and holds two equal entries or `none`; it succeeds,
\* returning the list, for every list of pairwise-distinct versions without
\* `none` and for the single version `none`.
C6_VersionListChecked ==
    (parsed # Pending /\ rawTarget # <<>>) =>
        LET list == VersionList(rawTarget) IN
        /\ (Len(list) > 1 /\ (HasEqualEntries(list) \/ HasNone(list)))
              => parsed.err \in {"duplicate", "none"}
        /\ ((~HasEqualEntries(list) /\ ~HasNone(list)) \/ list = <<NoneVersion>>)
              => (parsed.err = "" /\ parsed.versions = list)

\* parseTarget has rejected "a@v,none".
C6_Witness ==
    /\ rawTarget = <<"a", "@", "v", ",", "none">>
    /\ parsed.err = "none"

Segments(locator) == Split(locator, "/")

LooksLikeVersion(seg) ==
    seg # <<>> /\ seg[1] = "v" /\ \A k \in 2..Len(seg) : seg[k] \in Digits

IsLocatorOfSegments(raw) ==
    /\ Contains(raw, "/")
    /\ \A k \in 1..Len(Segments(raw)) : Segments(raw)[k] # <<>>

\* C7 as amended: for every locator made of non-empty segments the short name
\* is the lower-cased last segment, except that when the locator has MORE
\* THAN 3 segments and its last segment is "v" followed by zero or more
\* digits, the name is the lower-cased segment before it.
C7_NameOfLocator ==
    (parsed # Pending /\ IsLocatorOfSegments(rawTarget)) =>
        LET segs == Segments(rawTarget)
            n == Len(segs)
        IN /\ parsed.err = ""
           /\ parsed.pkgPath = rawTarget
           /\ parsed.name = ToLower(IF n > 3 /\ LooksLikeVersion(segs[n])
                                    THEN segs[n - 1] ELSE segs[n])

\* parseTarget has named "A/A/A/v2" after the segment before "v2".
C7_Witness ==
    /\ rawTarget = <<"A", "/", "A", "/", "A", "/", "v", "2">>
    /\ parsed.err = ""
    /\ parsed.name = <<"a">>

\* C7 as stated: the segment before a version-looking last segment names the
\* tool whatever the number of segments.
C7_AsStated ==
    (parsed # Pending /\ IsLocatorOfSegments(rawTarget)) =>
        LET segs == Segments(rawTarget)
            n == Len(segs)
        IN parsed.name = ToLower(IF LooksLikeVersion(segs[n])
                                 THEN segs[n - 1] ELSE segs[n])

----------------------------------------------------------------------------
(* Claims about the ModFile.                                               *)

NoBlank(s) == s # <<>> /\ ~Contains(s, " ")

\* The records the structured comment can carry: entries without blanks, a
\* sub package that is not ".", holds no "=" and does not start with "-",
\* build envs that hold "=" and do not start with "-", and a first build flag
\* that starts with "-".
WellFormedMeta(r) ==
    /\ r.RelPath # <<>> =>
          /\ NoBlank(r.RelPath)
          /\ r.RelPath # <<".">>
          /\ ~Contains(r.RelPath, "=")
          /\ r.RelPath[1] # "-"
    /\ \A k \in 1..Len(r.BuildEnvs) :
          /\ NoBlank(r.BuildEnvs[k])
          /\ Contains(r.BuildEnvs[k], "=")
          /\ r.BuildEnvs[k][1] # "-"
    /\ \A k \in 1..Len(r.BuildFlags) : NoBlank(r.BuildFlags[k])
    /\ r.BuildFlags # <<>> => r.BuildFlags[1][1] = "-"

SetThenFlushed == log = <<"SetDirectRequire", "Flush">>

\* C10 as amended: SetDirectRequire(r) followed by Flush() makes
\* DirectPackage() return a record equal to r for every record r whose
\* entries hold no blank and are not empty, whose sub package is empty or is
\* not ".", holds no "=" and does not start with "-", whose build envs hold
\* "=" and do not start with "-", and whose first build flag starts with "-".
C10_RoundTrip ==
    (SetThenFlushed /\ WellFormedMeta(rec)) =>
        /\ mfs["mf"].err = ""
        /\ DirectPackage(mfs["mf"]) = <<rec>>

\* A record with a sub package, a build env and a build flag came back.
C10_Witness ==
    /\ SetThenFlushed
    /\ rec.RelPath = <<"c">>
    /\ rec.BuildEnvs = << <<"=">> >>
    /\ rec.BuildFlags = << <<"-">> >>
    /\ DirectPackage(mfs["mf"]) = <<rec>>

\* C10 as stated: the round trip returns r for any sub package (also "."),
\* any build envs and any build flags.
C10_AsStated ==
    SetThenFlushed =>
        /\ mfs["mf"].err = ""
        /\ DirectPackage(mfs["mf"]) = <<rec>>

WellFormedFile(c) == c.parse /\ c.module

\* C8 as amended: opening a well-formed manifest whose module line lacks the
\* marker comment does not fail; OpenModFile adds the marker to the parsed
\* module line, for a pre-existing file as for one just created, and the next
\* Flush writes it to the file.
C8_MarkerInserted ==
    /\ (log = <<"Open">> /\ WellFormedFile(files[TheFile])
           /\ files[TheFile].header # <<MetaComment>>)
          => /\ IsOpen("mf")
             /\ mfs["mf"].m.header = Append(files[TheFile].header, MetaComment)
    /\ (log = <<"Open", "Flush">>)
          => files[TheFile].header = <<MetaComment>>

\* A manifest without marker is open, the marker added in memory only.
C8_Witness ==
    /\ log = <<"Open">>
    /\ files[TheFile].header = <<>>
    /\ files[TheFile].requires # <<>>
    /\ IsOpen("mf")
    /\ mfs["mf"].m.header = <<MetaComment>>

\* C8 as stated: opening a well-formed manifest without the marker fails.
C8_AsStated ==
    (log = <<"Open">> /\ WellFormedFile(files[TheFile])
        /\ files[TheFile].header # <<MetaComment>>)
       => ~IsOpen("mf")



----------------------------------------------------------------------------
(* Claims about a get invocation.                                          *)

\* The file of record of the target the running getPackage installs.
OutOfTarget == OutModFile(gp.name, gp.i)

\* The names of files of record: <name>.mod and <name>.<n>.mod, tmp files and
\* go.mod apart.
IsFileOfRecord(f) ==
    /\ HasSuffix(f, DotMod)
    /\ ~MatchTmp(f)
    /\ f # FakeRootModFileName

\* The invocation is an install: a target was given, it is not @none and no
\* rename is asked for.
IsInstall ==
    /\ pc # "idle"
    /\ cmd.raw # <<>>
    /\ cmd.rename = <<>>
    /\ parsed.err = ""
    /\ parsed.versions[1] # NoneVersion

\* C1, as the specification states it: when the build step fails, the file of
\* record the target already had holds at the end of the invocation what it
\* held when the invocation started.
C1_AsStated ==
    (pc = "done" /\ getErr = "build versioned" /\ OutOfTarget \in DOMAIN pre)
        => /\ OutOfTarget \in DOMAIN files
           /\ files[OutOfTarget] = pre[OutOfTarget]

\* A manifest is complete: it parses, has its module line and a direct
\* require.
Complete(bytes) ==
    bytes.parse /\ bytes.module /\ FirstDirect(bytes.requires) # <<>>

Committed(f) == \E j \in 1..Len(commits) : commits[j] = f

\* C2, as the specification states it: during an install, at every point
\* between two steps, each file of record holds the complete prior manifest
\* or, once renamed over, a complete new one.
C2_AsStated ==
    IsInstall =>
        \A f \in DOMAIN files :
            IsFileOfRecord(f) =>
                \/ f \in DOMAIN pre /\ files[f] = pre[f]
                \/ Committed(f) /\ Complete(files[f])

\* The files of record of the first n getPackage calls of the invocation.
OutFilesOfWork(n) ==
    [j \in 1..n |-> OutModFile(inv.work[j].name, inv.work[j].i)]

\* C3 (amended): os.Rename replaces the files of record of the targets one by
\* one, in the order of the targets, each at most once; a target whose step
\* fails is not renamed over, nor is any target after it, while the targets
\* before it stay replaced.
C3_CommitPerTarget ==
    /\ Len(commits) <= Len(inv.work)
    /\ commits = OutFilesOfWork(Len(commits))
    /\ pc \in {"getPackage", "stage", "copy", "install", "build", "unlink",
               "symlink", "rename"}
          => gp.err = "" /\ getErr = "" /\ Len(commits) = inv.k - 1
    /\ (pc = "gpDefer" /\ gp.err # "") => Len(commits) = inv.k - 1
    /\ getErr # "" => Len(commits) = (IF inv.work = <<>> THEN 0 ELSE inv.k - 1)

\* A step of the second target failed after the first was renamed over.
C3_Witness ==
    /\ pc = "done"
    /\ getErr # ""
    /\ inv.k = 2
    /\ commits = OutFilesOfWork(1)

\* C3, as the specification states it: an invocation that fails has replaced
\* no file of record, and no invocation replaces more than one.
C3_AsStated ==
    /\ getErr # "" => commits = <<>>
    /\ Len(commits) <= 1

\* The step is getPackage's rename.
IsRename == commits' # commits

\* The target's rename is done and its getPackage has not returned.
AfterRename == pc = "gpDefer" /\ gp.err = "" /\ OutOfTarget \in DOMAIN files

\* C4, as the specification states it: the rename comes only after the
\* staging, a go list naming a main package, the build and, when asked for,
\* the link, and after it nothing changes the target's file of record.
C4_AsStated ==
    [][/\ IsRename =>
            /\ gp.err = ""
            /\ TmpModFile(gp.name, gp.i) \in DOMAIN files
            /\ gp.kind # <<>>
            /\ \E b \in DOMAIN bin : ~bin[b].link /\ HasPrefix(b, gp.name \o <<"-">>)
            /\ cmd.link => (gp.name \in DOMAIN bin /\ bin[gp.name].link)
       /\ (AfterRename /\ pc' = "gpDefer")
            => files'[OutOfTarget] = files[OutOfTarget]]_vars

\* C5, as the specification states it: the build, the link and the rename are
\* reached only with go list printing "main"; any other output ends the
\* target with NotInstallable.
C5_AsStated ==
    /\ pc \in {"build", "unlink", "symlink", "rename"} => gp.kind = MainKind
    /\ (pc = "gpDefer" /\ gp.kind # <<>> /\ gp.kind # MainKind)
          => gp.err = "NotInstallable"

\* C9, as the specification states it: during an install or a refresh of all
\* tools, a file of record that does not parse stays as it is.
C9_AsStated ==
    (IsInstall \/ inv.mode = "all") =>
        \A f \in DOMAIN pre :
            (IsFileOfRecord(f) /\ ~pre[f].parse)
                => f \in DOMAIN files /\ files[f] = pre[f]

----------------------------------------------------------------------------
(* Claims about resolveInGoModCache and resolvePackage.                    *)

\* The target as getPackage received it, and the number of its path elements.
Asked == inv.work[1].target
SegCount(p) == Len(Split(p, "/"))
Max(S) == CHOOSE x \in S : \A y \in S : y <= x

\* The directory holds what the request reads: a list with a last line for
\* the latest version, the .info of a tagged version, an .info ending with
\* the revision's first characters.
Serves(dir, version, update) ==
    IF update \/ version = <<>>
    THEN dir.hasList /\ dir.list # <<>> /\ dir.list[Len(dir.list)] # <<>>
    ELSE IF version[1] = "v" THEN version \in dir.infos
    ELSE /\ Len(version) > ShaPrefixLen
         /\ \E x \in dir.infos : HasSuffix(x, SubSeq(version, 1, ShaPrefixLen))

\* The cache holds one directory, that of the path two elements above the
\* package asked for without module, and it serves the request.
OnlyTwoAbove ==
    /\ pc = "probed"
    /\ Asked.Module.Path = <<>>
    /\ SegCount(Asked.RelPath) >= 3
    /\ DOMAIN cache = {Prefix(Asked.RelPath, SegCount(Asked.RelPath) - 2)}
    /\ Serves(cache[Prefix(Asked.RelPath, SegCount(Asked.RelPath) - 2)],
              Asked.Module.Version, cmd.update)

TwoAboveFound ==
    LET segs == Split(Asked.RelPath, "/") IN
    /\ gp.err = ""
    /\ gp.target.Module.Path = Prefix(Asked.RelPath, Len(segs) - 2)
    /\ gp.target.RelPath = Join(SubSeq(segs, Len(segs) - 1, Len(segs)), <<"/">>)

\* C12 as the spec states it: whenever the cache holds metadata only for the
\* path two elements above the package asked for, that path is found as the
\* module and the last two elements are the sub package.
C12_AsStated == OnlyTwoAbove => TwoAboveFound

\* C12: when the package asked for has five path elements or more and the
\* cache holds metadata only for the path two elements above it, that path is
\* found as the module and the last two elements are the sub package.
C12_CacheFallback ==
    OnlyTwoAbove /\ SegCount(Asked.RelPath) >= 5 => TwoAboveFound

C12_Witness ==
    /\ OnlyTwoAbove
    /\ SegCount(Asked.RelPath) >= 5
    /\ TwoAboveFound
    /\ gp.target.RelPath = <<"s", "/", "t">>

\* The candidates of three path elements or more whose directory holds the
\* .info of the tagged version asked for.
TaggedCase ==
    /\ pc = "probed"
    /\ ~cmd.update
    /\ HasPrefix(Asked.Module.Version, <<"v">>)

TaggedHits ==
    {k \in 3..SegCount(Path(Asked)) :
        /\ Prefix(Path(Asked), k) \in DOMAIN cache
        /\ Asked.Module.Version \in cache[Prefix(Path(Asked), k)].infos}

\* C13: for a tagged version without update, the module found is the longest
\* path, of three elements or more, above or at the package whose directory
\* holds that version's .info, and the version stays; without such a path the
\* probe fails with "no module was cached" and the target is as it was.
C13_TaggedProbe ==
    TaggedCase =>
      IF TaggedHits = {}
      THEN gp.err = "no module was cached" /\ gp.target = Asked
      ELSE /\ gp.err = ""
           /\ gp.target.Module.Path = Prefix(Path(Asked), Max(TaggedHits))
           /\ gp.target.Module.Version = Asked.Module.Version

C13_Witness ==
    /\ TaggedCase
    /\ TaggedHits # {}
    /\ gp.err = ""
    /\ \E k \in 3..SegCount(Path(Asked)) :
         k > Max(TaggedHits) /\ Prefix(Path(Asked), k) \in DOMAIN cache

\* The candidates of three path elements or more that have a directory.
CachedCandidates ==
    {k \in 3..SegCount(Path(Asked)) : Prefix(Path(Asked), k) \in DOMAIN cache}

LatestCase ==
    /\ pc = "probed"
    /\ cmd.update \/ Asked.Module.Version = <<>>
    /\ CachedCandidates # {}

FirstCached == Prefix(Path(Asked), Max(CachedCandidates))

\* The greatest of the lines in byte order.
LexLast(lines) ==
    LET sorted == Sorted({lines[i] : i \in 1..Len(lines)}) IN sorted[Len(sorted)]

\* C14 as the spec states it: with update or without version the longest
\* candidate that has a directory is taken, the version is the
\* lexicographically last line of its list, and the probe succeeds.
C14_AsStated ==
    LatestCase =>
      /\ gp.err = ""
      /\ cache[FirstCached].list # <<>>
      /\ gp.target.Module =
           [Path |-> FirstCached, Version |-> LexLast(cache[FirstCached].list)]

\* C14: with update or without version the longest candidate that has a
\* directory decides: when its list is there and its last line is not empty
\* the probe succeeds with that line as version, otherwise it fails and the
\* target is as it was.
C14_LatestProbe ==
    LatestCase =>
      LET dir == cache[FirstCached] IN
      IF dir.hasList /\ dir.list # <<>> /\ dir.list[Len(dir.list)] # <<>>
      THEN /\ gp.err = ""
           /\ gp.target.Module =
                [Path |-> FirstCached, Version |-> dir.list[Len(dir.list)]]
      ELSE gp.err = "get latest version" /\ gp.target = Asked

C14_Witness ==
    /\ LatestCase
    /\ gp.err = ""
    /\ Max(CachedCandidates) < SegCount(Path(Asked))
    /\ Cardinality(CachedCandidates) > 1
    /\ cache[FirstCached].list = <<V2, V1>>
    /\ gp.target.Module.Version = V1

\* The first characters of a revision that a file name is matched with.
ShaPrefix(v) ==
    SubSeq(v, 1, IF Len(v) < ShaPrefixLen THEN Len(v) ELSE ShaPrefixLen)

RevisionCase ==
    /\ pc = "probed"
    /\ ~cmd.update
    /\ Asked.Module.Version # <<>>
    /\ ~HasPrefix(Asked.Module.Version, <<"v">>)

RevisionHits ==
    {k \in 3..SegCount(Path(Asked)) :
        /\ Prefix(Path(Asked), k) \in DOMAIN cache
        /\ \E x \in cache[Prefix(Path(Asked), k)].infos :
             HasPrefix(x, ShaPrefix(Asked.Module.Version))}

\* C15 as the spec states it: for a revision without update, the probe
\* succeeds on the first candidate whose directory holds an .info file that
\* starts with the first 12 characters of the revision, and the version
\* becomes the revision in that file's name.
C15_AsStated ==
    RevisionCase /\ RevisionHits # {} =>
      /\ gp.err = ""
      /\ gp.target.Module.Path = Prefix(Path(Asked), Max(RevisionHits))
      /\ gp.target.Module.Version \in
           {x \in cache[Prefix(Path(Asked), Max(RevisionHits))].infos :
              HasPrefix(x, ShaPrefix(Asked.Module.Version))}

\* go get -d succeeded and left several modules, none of them the module of
\* the target or its package path.
Ambiguous ==
    /\ pc = "resolved"
    /\ log = <<"GetD">>
    /\ LET mods == ModIndirectModules(files[TmpEmptyModFile(gp.name, gp.i)]) IN
       /\ Len(mods) > 1
       /\ \A i \in 1..Len(mods) :
            mods[i].Path # Asked.Module.Path /\ mods[i].Path # Path(Asked)

\* resolvePackage ended as resolveInGoModCache on the target ends.
ProbedInstead ==
    LET found == resolveInGoModCache(cache, cmd.verbose, cmd.update, Asked) IN
    /\ gp.target = found.target
    /\ gp.err = IF found.err = "" \/ found.err = "panic" THEN found.err
                ELSE "fallback failed"

\* C16 as the spec states it: when go get -d leaves several modules and none
\* matches, resolvePackage goes on to resolveInGoModCache, whether the
\* target's module is known or not.
C16_AsStated == Ambiguous => ProbedInstead

\* C16: when go get -d leaves several modules and none matches,
\* resolvePackage goes on to resolveInGoModCache if the target's module is
\* not known, and fails at once, the target as it was, if it is known.
C16_Ambiguity ==
    Ambiguous =>
      IF Asked.Module.Path = <<>> THEN ProbedInstead
      ELSE gp.err = "no indirect module for module" /\ gp.target = Asked

C16_Witness ==
    /\ Ambiguous
    /\ Asked.Module.Path = <<>>
    /\ gp.err = ""
    /\ gp.target.Module.Path = TheModule

----------------------------------------------------------------------------
(* Claims about installed tools.                                           *)

\* The largest index of a manifest in the pin directories considered.
MaxIndex == ArrayLen + 1

\* Every target of the getPackage calls has its module path and a tagged
\* version, so that none is resolved.
FullySpecified(work) ==
    \A k \in 1..Len(work) :
      /\ work[k].target.Module.Path # <<>>
      /\ HasPrefix(work[k].target.Module.Version, <<"v">>)

\* An install without update has succeeded for the second time in a row, of
\* the same fully specified targets both times.
InstalledTwice ==
    /\ pc = "done"
    /\ getErr = ""
    /\ prev # <<>>
    /\ ~cmd.update
    /\ inv.mode \in {"get", "all"}
    /\ commits # <<>>
    /\ FullySpecified(inv.work)
    /\ inv.work = prev[1].work

\* C11: when an install of fully specified targets without update succeeds
\* twice in a row, every manifest the second invocation committed holds the
\* bytes the first invocation left in it.
C11_Idempotent ==
    InstalledTwice =>
      \A k \in 1..Len(commits) :
        commits[k] \in DOMAIN pre /\ files[commits[k]] = pre[commits[k]]

C11_Witness ==
    /\ InstalledTwice
    /\ cmd.raw = ToolName \o <<"@">> \o V2
    /\ files[OutModFile(ToolName, 0)] = Pinned(V2)
    /\ pre[OutModFile(ToolName, 0)] = Pinned(V2)

\* The manifests of a tool in a pin directory: <name>.mod and <name>.<i>.mod.
ManifestsOf(fs, name) ==
    {f \in DOMAIN fs : \E i \in 0..MaxIndex : f = OutModFile(name, i)}

\* An invocation for <target>@none has returned.
UninstallDone ==
    /\ pc = "done"
    /\ cmd.raw # <<>>
    /\ parsed.err = ""
    /\ parsed.versions[1] = NoneVersion

\* C17, as stated: an uninstall succeeds only for a bare name that has a
\* manifest; when it succeeds every manifest of the name is gone, GOBIN is as it was and the
\* manifests of other tools are as they were; when it fails every file of
\* the pin directory and of GOBIN is still there.
C17_AsStated ==
    UninstallDone =>
      IF getErr = ""
      THEN /\ parsed.pkgPath = <<>>
           /\ ManifestsOf(pre, parsed.name) # {}
           /\ ManifestsOf(files, parsed.name) = {}
           /\ bin = InstalledBins
           /\ \A f \in DOMAIN pre \ ManifestsOf(pre, parsed.name) :
                f \in DOMAIN files /\ files[f] = pre[f]
      ELSE /\ bin = InstalledBins
           /\ \A f \in DOMAIN pre : f \in DOMAIN files /\ files[f] = pre[f]


\* The direct record of the manifest f as the pin directory fs holds it.
RecordOf(fs, f) == DirectPackage(OpenModFile(f, fs[f]))[1]

SameTool(a, b) ==
    /\ a.Module.Path = b.Module.Path
    /\ a.Module.Version = b.Module.Version
    /\ a.RelPath = b.RelPath

\* A get by the bare name of a tool that had several manifests, without
\* version, update, -n or -r, has returned without error.
ArrayGetDone ==
    /\ pc = "done"
    /\ getErr = ""
    /\ inv.mode = "get"
    /\ cmd.raw = ToolName
    /\ ~cmd.update
    /\ cmd.name = <<>>
    /\ cmd.rename = <<>>
    /\ Cardinality(ManifestsOf(pre, ToolName)) > 1

\* C18, as stated: such a get has installed as many targets as the tool had
\* manifests, target i being the record of the manifest of index i, and the
\* tool has as many manifests as before.
C18_AsStated ==
    ArrayGetDone =>
      LET K == Cardinality(ManifestsOf(pre, ToolName)) IN
      /\ Len(inv.work) = K
      /\ \A i \in 0..(K - 1) :
           /\ OutModFile(ToolName, i) \in DOMAIN pre
           /\ SameTool(inv.work[i + 1].target, RecordOf(pre, OutModFile(ToolName, i)))
      /\ Cardinality(ManifestsOf(files, ToolName)) = K


\* An invocation of bingo get -r <new> <old> that got past its checks.
Renaming ==
    /\ pc # "idle"
    /\ inv.mode = "rename"
    /\ cmd.rename # <<>>

\* C19, as stated: when a rename has returned without error the old name has
\* no manifest, the new name has as many as the old name had, the one of
\* index i with the direct record of the old one of index i; and while it
\* runs, an old manifest is missing only once every re-install has committed.
C19_AsStated ==
    Renaming =>
      LET K == Cardinality(ManifestsOf(pre, parsed.name)) IN
      /\ (pc = "done" /\ getErr = "") =>
            /\ ManifestsOf(files, parsed.name) = {}
            /\ Cardinality(ManifestsOf(files, cmd.rename)) = K
            /\ \A i \in 0..(K - 1) :
                 /\ OutModFile(parsed.name, i) \in DOMAIN pre
                 /\ OutModFile(cmd.rename, i) \in DOMAIN files
                 /\ RecordOf(files, OutModFile(cmd.rename, i))
                      = RecordOf(pre, OutModFile(parsed.name, i))
      /\ ManifestsOf(files, parsed.name) # ManifestsOf(pre, parsed.name) =>
            Len(commits) = K


\* An install of one target, whose version had to be resolved, has returned
\* without error: out is the manifest it committed.
ResolvedInstallDone ==
    /\ pc = "done"
    /\ getErr = ""
    /\ inv.mode = "get"
    /\ Len(inv.work) = 1
    /\ NeedsResolve(inv.work[1].target, cmd.update)
    /\ commits = <<OutModFile(inv.work[1].name, inv.work[1].i)>>

\* C20, as stated: after such an install the replace directives of the
\* committed manifest are those of the resolved module's go.mod, none when
\* it declares none, unless the manifest held the comment that disables
\* their fetching, and then they are those the manifest held before.
C20_AsStated ==
    ResolvedInstallDone =>
      LET out == commits[1]
          marker == out \in DOMAIN pre /\ pre[out].noReplace
          prior == IF out \in DOMAIN pre THEN pre[out].replaces ELSE <<>>
      IN files[out].replaces = IF marker THEN prior ELSE gp.replaceStmts


----------------------------------------------------------------------------
(* Claims about reserved names.                                            *)

\* The pin directory before the invocation, with the root marker that every
\* invocation writes first.
Baseline ==
    WriteFile(pre, FakeRootModFileName, ModContent(<<FakeComment>>, <<>>, <<>>, FALSE))

\* The invocation, which has returned, had a getPackage call under the name n.
InstallsAs(n) ==
    /\ pc = "done"
    /\ \E k \in 1..Len(inv.work) : inv.work[k].name = n

\* Nothing of the name n is in GOBIN, and its manifests are as they were.
Untouched(n) ==
    /\ \A b \in DOMAIN bin : b # n /\ ~HasPrefix(b, n \o <<"-">>)
    /\ \A i \in 0..MaxIndex :
         LET f == OutModFile(n, i) IN
         /\ f \in DOMAIN files <=> f \in DOMAIN Baseline
         /\ f \in DOMAIN files => files[f] = Baseline[f]

\* C21, as stated: an install under the name cmd or go returns an error, and
\* has built no binary, changed no symlink, and created or replaced no
\* manifest of that name.
C21_AsStated ==
    \A n \in {CmdName, RootName} :
      InstallsAs(n) => getErr # "" /\ Untouched(n)


----------------------------------------------------------------------------
(* Claims about getAll.                                                    *)

\* The full package path, the module path and the version a record pins.
Coordinate(pkg) == <<Path(pkg), pkg.Module.Path, pkg.Module.Version>>

\* The manifests of the pin directory fs that hold a direct record.
PinnedFiles(fs) ==
    {f \in DOMAIN fs : /\ HasSuffix(f, DotMod)
                       /\ f # FakeRootModFileName
                       /\ OpenModFile(f, fs[f]).err = ""
                       /\ DirectPackage(OpenModFile(f, fs[f])) # <<>>}

\* bingo get without target and without update has returned without error.
RefreshDone ==
    /\ pc = "done"
    /\ getErr = ""
    /\ inv.mode = "all"
    /\ ~cmd.update

\* C22, as stated: a refresh installs no target under the name of the root
\* marker, the target of index i of a tool is the record of the tool's
\* manifest of index i, and every manifest pins what it pinned before.
C22_AsStated ==
    RefreshDone =>
      /\ \A k \in 1..Len(inv.work) :
           LET f == OutModFile(inv.work[k].name, inv.work[k].i) IN
           /\ inv.work[k].name # RootName
           /\ f \in PinnedFiles(pre)
           /\ Coordinate(inv.work[k].target) = Coordinate(RecordOf(pre, f))
      /\ \A f \in PinnedFiles(pre) :
           /\ f \in PinnedFiles(files)
           /\ Coordinate(RecordOf(files, f)) = Coordinate(RecordOf(pre, f))


----------------------------------------------------------------------------
(* Claims about two invocations on one pin directory.                      *)

\* The getPackage call of the invocation is between the staging of its
\* manifest and the commit, and the staged manifest is not in the directory.
StagedGone ==
    /\ pc \in {"install", "build", "unlink", "symlink", "rename"}
    /\ ~Exists(files, TmpModFile(gp.name, gp.i))

\* C23: whenever the other invocation starts, or stages its manifest of u,
\* no temporary manifest staged before is left in the pin directory, that of
\* t included; and a getPackage whose staged manifest is gone commits
\* nothing and returns an error.
C23_Unguarded ==
    [][/\ OtherStart => \A f \in DOMAIN files' : ~MatchTmp(f)
       /\ OtherStage =>
            \A f \in DOMAIN files' : MatchTmp(f) => f = TmpModFile(OtherTool, 0)
       /\ (StagedGone /\ pc' # pc) =>
            /\ commits' = commits
            /\ pc' = "gpDefer" => gp'.err # ""]_vars

\* The install of t was about to commit when the other invocation, which
\* installs u, removed its staged manifest: the rename has failed and t.mod
\* is as it was.
C23_Witness ==
    /\ pc = "done"
    /\ getErr = "rename"
    /\ gp.name = ToolName
    /\ cmd.raw = ThePackage \o <<"@">> \o V2
    /\ commits = <<>>
    /\ OutModFile(ToolName, 0) \in DOMAIN files
    /\ RecordOf(files, OutModFile(ToolName, 0)).Module.Version = V1
    /\ ToolName \o <<"-">> \o V2 \in DOMAIN bin


----------------------------------------------------------------------------
(* Claims about the resolved target.                                       *)

\* resolveInGoModCache or resolvePackage has returned without error.
ResolvedOK ==
    /\ pc \in {"probed", "resolved"}
    /\ gp.err = ""

\* go get -d has left nothing, or several modules, or the one module that
\* contains the package asked for.
SoleModuleContains ==
    LET f == TmpEmptyModFile(gp.name, gp.i)
        mods == IF f \in DOMAIN files THEN ModIndirectModules(files[f]) ELSE <<>>
    IN Len(mods) = 1 =>
         \/ mods[1].Path = Path(Asked)
         \/ HasPrefix(Path(Asked), mods[1].Path \o <<"/">>)

\* C24, as stated: after a resolution that succeeded, the module path of the
\* target joined with its relative path is the package path it was asked for.
C24_AsStated ==
    (ResolvedOK /\ SoleModuleContains) => Path(gp.target) = Path(Asked)

----------------------------------------------------------------------------
(* Claims about the manifest in memory.                                    *)

\* The requires of reqs that are not indirect, in their order.
Directs(reqs) == SelectSeq(reqs, LAMBDA r : ~r.indirect)

\* The require in memory names the module and version of require r.
HoldsRequire(mf, r) ==
    /\ Len(mf.m.requires) = 1
    /\ mf.m.requires[1].path = r.path
    /\ mf.m.requires[1].version = r.version

\* The manifest in memory is what Reload makes of the requires `reqs` of the
\* file: nothing without a direct one, else the first direct one.
AsRead(mf, reqs) ==
    IF Directs(reqs) = <<>> THEN mf.m.requires = <<>>
    ELSE HoldsRequire(mf, Directs(reqs)[1])

LastLogged == IF log = <<>> THEN "" ELSE log[Len(log)]

\* C25: an open manifest holds at most one require in memory and that one
\* is direct; DirectPackage is nil exactly when it holds none, and else
\* names the module and version of the require; after OpenModFile, Reload
\* and Flush the require is the first direct one of the file as read, after
\* SetDirectRequire it is the record set.
C25_OneDirect ==
    \A h \in DOMAIN mfs :
      IsOpen(h) =>
        LET mf == mfs[h] IN
        /\ Len(mf.m.requires) <= 1
        /\ \A k \in DOMAIN mf.m.requires : ~mf.m.requires[k].indirect
        /\ (DirectPackage(mf) = <<>>) <=> (mf.m.requires = <<>>)
        /\ DirectPackage(mf) # <<>> =>
             /\ mf.m.requires[1].path = DirectPackage(mf)[1].Module.Path
             /\ mf.m.requires[1].version = DirectPackage(mf)[1].Module.Version
        /\ (h = "mf" /\ io = NoIO /\ LastLogged \in {"Open", "Reload", "Flush"}) =>
             AsRead(mf, ReadHandle(files, mf).requires)
        /\ (h = "mf" /\ LastLogged = "SetDirectRequire") =>
             DirectPackage(mf) = <<rec>>

\* A file whose first require is indirect and whose second is direct was
\* reloaded: the manifest in memory holds the second alone.
C25_Witness ==
    /\ IsOpen("mf")
    /\ io = NoIO
    /\ LastLogged = "Reload"
    /\ Len(ReadHandle(files, mfs["mf"]).requires) = 2
    /\ ReadHandle(files, mfs["mf"]).requires[1].indirect
    /\ Len(mfs["mf"].m.requires) = 1
    /\ DirectPackage(mfs["mf"]) # <<>>

----------------------------------------------------------------------------
(* Claims about build options.                                             *)

\* The manifests this invocation has committed over one that held a direct
\* record before it.
Reinstalled ==
    {f \in {commits[k] : k \in DOMAIN commits} :
        /\ f \in DOMAIN pre
        /\ OpenModFile(f, pre[f]).err = ""
        /\ DirectPackage(OpenModFile(f, pre[f])) # <<>>}

\* C26: once the invocation is over, a manifest committed over one that held
\* a direct record holds a direct record with the build envs and the build
\* flags of the one before, whatever its module and version.
C26_OptionsCarried ==
    pc = "done" =>
      \A f \in Reinstalled :
        /\ f \in DOMAIN files
        /\ OpenModFile(f, files[f]).err = ""
        /\ DirectPackage(OpenModFile(f, files[f])) # <<>>
        /\ RecordOf(files, f).BuildEnvs = RecordOf(pre, f).BuildEnvs
        /\ RecordOf(files, f).BuildFlags = RecordOf(pre, f).BuildFlags

\* t.mod held version v1 with a build env and a build flag and was committed
\* anew at version v2.
C26_Witness ==
    /\ pc = "done"
    /\ getErr = ""
    /\ OutModFile(ToolName, 0) \in Reinstalled
    /\ RecordOf(pre, OutModFile(ToolName, 0)).BuildEnvs = <<EnvOpt>>
    /\ RecordOf(pre, OutModFile(ToolName, 0)).BuildFlags = <<FlagOpt>>
    /\ RecordOf(pre, OutModFile(ToolName, 0)).Module.Version = V1
    /\ RecordOf(files, OutModFile(ToolName, 0)).Module.Version = V2

----------------------------------------------------------------------------
(* Claims about the symlink.                                               *)

\* What GOBIN holds under the name n: nothing, or one entry.
EntryOf(b, n) == IF n \in DOMAIN b THEN <<b[n]>> ELSE <<>>

\* The names under which GOBIN holds a symlink.
Links(b) == {n \in DOMAIN b : b[n].link}

\* The symlink of the tool `name` designates the binary of the version that
\* the manifest f holds, and that binary is there.
LinkedTo(b, name, fs, f) ==
    LET path == name \o <<"-">> \o RecordOf(fs, f).Module.Version IN
    /\ EntryOf(b, name) = <<[link |-> TRUE, to |-> path]>>
    /\ path \in DOMAIN b
    /\ ~b[path].link

\* C27: a symlink changes only in the unlink and symlink steps of an install
\* with linking, and it is that of the tool installed; the steps are entered
\* only from a build that succeeded; the symlink made designates the binary
\* of the version staged in that getPackage; after an invocation with
\* linking that succeeded, the symlink designates the binary of the last
\* manifest committed.
C27_LinkAfterBuild ==
    [][/\ \A n \in Links(bin) \cup Links(bin') :
            EntryOf(bin, n) # EntryOf(bin', n) =>
              /\ cmd.link
              /\ n = gp.name
              /\ pc \in {"unlink", "symlink"}
       /\ (pc' = "unlink" /\ pc # "unlink") =>
            /\ pc = "build"
            /\ gp'.err = ""
            /\ \E p \in DOMAIN bin' :
                  /\ ~bin'[p].link
                  /\ p = gp.name \o <<"-">>
                           \o RecordOf(files, TmpModFile(gp.name, gp.i)).Module.Version
       /\ (pc' = "symlink" /\ pc # "symlink") => pc = "unlink"
       /\ (pc = "symlink" /\ pc' = "rename") =>
            LinkedTo(bin', gp.name, files, TmpModFile(gp.name, gp.i))
       /\ (pc' = "done" /\ pc # "done" /\ getErr' = "" /\ cmd.link /\ commits # <<>>) =>
            LinkedTo(bin', inv.work[Len(inv.work)].name, files', commits[Len(commits)])]_vars

\* bingo get -l t@v1,v2 has succeeded where the symlink t designated t-v1:
\* it designates t-v2, the binary of t.1.mod.
C27_Witness ==
    /\ pc = "done"
    /\ getErr = ""
    /\ cmd.link
    /\ Len(commits) = 2
    /\ commits[2] = OutModFile(ToolName, 1)
    /\ LinkedTo(bin, ToolName, files, OutModFile(ToolName, 1))
    /\ RecordOf(files, OutModFile(ToolName, 1)).Module.Version = V2

----------------------------------------------------------------------------
(* Claims about the package a tool name is pinned to.                      *)

\* The name the command installs under: that of -n, else the target's.
InstallName == IF cmd.name # <<>> THEN cmd.name ELSE parsed.name

\* The manifests of the name `name` in fs, by index.
SiblingsOf(fs, name) ==
    LET S == {i \in 0..MaxIndex : OutModFile(name, i) \in DOMAIN fs}
        order == CHOOSE s \in [1..Cardinality(S) -> S] :
                    \A a, b \in 1..Cardinality(S) : a < b => s[a] < s[b]
    IN [k \in 1..Cardinality(S) |-> OutModFile(name, order[k])]

\* The package path the manifest f of fs pins, as a sequence of 0 or 1.
Pins(fs, f) ==
    LET mf == OpenModFile(f, fs[f]) IN
    IF mf.err = "" /\ DirectPackage(mf) # <<>>
    THEN <<Path(DirectPackage(mf)[1])>> ELSE <<>>

\* The rounds of the loop over versions: one per version given, one per
\* manifest when no version is given, no update asked and several are there.
Rounds(fs) ==
    IF parsed.versions = <<<<>>>> /\ ~cmd.update /\ Len(SiblingsOf(fs, InstallName)) > 1
    THEN Len(SiblingsOf(fs, InstallName))
    ELSE Len(parsed.versions)

\* The command is an install: a target that parses, no rename, no removal,
\* no version with an update.
InstallAsked ==
    /\ pc # "idle"
    /\ cmd.raw # <<>>
    /\ parsed.err = ""
    /\ cmd.rename = <<>>
    /\ parsed.versions[1] # <<"n", "o", "n", "e">>
    /\ ~(cmd.update /\ (parsed.versions[1] # <<>> \/ Len(parsed.versions) > 1))

\* The invocation has failed on a package path and has called no getPackage.
NameCollision ==
    /\ pc \in {"getDefer", "done"}
    /\ getErr = "different package path"
    /\ gp = NoGp
    /\ commits = <<>>
    /\ bin = InstalledBins

\* The first manifest of the name pins another package than the one given.
PinsAnother ==
    LET s == SiblingsOf(pre, InstallName) IN
    /\ parsed.pkgPath # <<>>
    /\ s # <<>>
    /\ Pins(pre, s[1]) # <<>>
    /\ Pins(pre, s[1])[1] # parsed.pkgPath

\* Among the first n manifests of the name, one pins another package than
\* the first does, and those before it open.
SiblingPinsAnother(n) ==
    LET s == SiblingsOf(pre, InstallName) IN
    \E i \in 1..n :
      /\ i <= Len(s)
      /\ Pins(pre, s[1]) # <<>>
      /\ Pins(pre, s[i]) # <<>>
      /\ Pins(pre, s[i]) # Pins(pre, s[1])
      /\ \A j \in 1..i : OpenModFile(s[j], pre[s[j]]).err = ""

\* C28: an install of a package under a name whose first manifest pins
\* another package fails on the package path before any getPackage, and so
\* does an install when one of the manifests its loop reaches, one per
\* round, pins another package than the first.
C28_Collision ==
    InstallAsked =>
      /\ PinsAnother => NameCollision
      /\ SiblingPinsAnother(Rounds(pre)) => NameCollision

\* bingo get h/o/m/t@v1,v2 where t.mod pins h/o/m/t and t.1.mod h/o/x/u.
C28_Witness ==
    /\ InstallAsked
    /\ pc = "done"
    /\ NameCollision
    /\ parsed.pkgPath = ThePackage
    /\ Len(parsed.versions) = 2
    /\ ~PinsAnother
    /\ SiblingPinsAnother(2)

\* C28, as stated: every manifest of the name must pin the package of the
\* first, or the install fails on the package path.
C28_AsStated ==
    InstallAsked =>
      /\ PinsAnother => NameCollision
      /\ SiblingPinsAnother(MaxIndex + 1) => NameCollision

----------------------------------------------------------------------------
(* Claims about the manifests an install leaves.                           *)

\* The manifests of the name `name` in fs: <name>.mod and what <name>.*.mod
\* matches, staged files apart.
AllManifestsOf(fs, name) ==
    {f \in DOMAIN fs : /\ f = OutModFile(name, 0) \/ MatchArrMod(f, name)
                       /\ ~MatchTmp(f)}

\* get with a target has installed its targets and returned without error.
InstallDone ==
    /\ pc = "done"
    /\ getErr = ""
    /\ inv.mode = "get"
    /\ commits # <<>>

----------------------------------------------------------------------------
(* Claims about the end of the cache probe.                                *)

\* C30, as stated: resolveInGoModCache ends by returning, with a target or
\* with an error; it never ends the process.
C30_AsStated ==
    pc = "probed" => gp.err # "panic"

----------------------------------------------------------------------------
(* Claims about the replace directives of a renamed tool.                  *)

\* The old name's manifests of before the invocation that open.
RenamedFrom ==
    {i \in 0..MaxIndex :
        /\ OutModFile(parsed.name, i) \in DOMAIN pre
        /\ OpenModFile(OutModFile(parsed.name, i), pre[OutModFile(parsed.name, i)]).err = ""}

\* C31, as stated: when a rename has returned without error, the manifest of
\* index i of the new name, where there is one, holds the replace directives
\* that the manifest of index i of the old name held.
C31_AsStated ==
    (Renaming /\ pc = "done" /\ getErr = "") =>
      \A i \in RenamedFrom :
        OutModFile(cmd.rename, i) \in DOMAIN files =>
          files[OutModFile(cmd.rename, i)].replaces
            = pre[OutModFile(parsed.name, i)].replaces

=============================================================================
